---- MODULE Spec2Model ----
(***************************************************************************)
(* RSSI position tracker (A-Jyoti/system-design-project).                  *)
(*                                                                         *)
(* The repository holds several generations of one pipeline:               *)
(*   appws.py, appplot.py, app_plot_2.py  one /ws endpoint serving both    *)
(*                                         the ESP32 anchors and browsers  *)
(*   app_plot_3.py                         /ws for anchors, /ws/client for *)
(*                                         browsers, persistent filters    *)
(* Flask serves every websocket connection on a thread of its own, so the  *)
(* handlers below interleave at the granularity of their accesses to the   *)
(* shared module-level state (esp_data, the client list, the filters).     *)
(* The handlers' arithmetic is exact (rationals); the filters exercised on *)
(* their own round every operation as a binary float does.                 *)
(***************************************************************************)
EXTENDS Integers, Sequences, FiniteSets, TLC

VARIABLES
    variant,    \* which source file is running
    now,        \* the latest reading of the wall clock, time()
    esp_data,   \* esp_data[key] = [value |-> list, timestamp |-> float]
    clients,    \* clients / browser_clients: list of websocket objects
    filters,    \* the module-level filter objects of app_plot_3.py
    conn,       \* transport state of every websocket
    pc,         \* position of every connection's handler thread
    loc,        \* locals of every handler thread, and what its event did
    nmsgs,      \* messages received so far
    hist,       \* hist[key]: the readings of the anchor that went through
                \* the filter stage so far, oldest first
    fits,       \* calls of calibrate_path_loss (curve_fit) made so far
    probe       \* a function or object of the program exercised on its own:
                \* its arguments, its state, what it returned

vars == <<variant, now, esp_data, clients, filters, conn, pc, loc, nmsgs,
          hist, fits, probe>>

---------------------------------------------------------------------------
(* Bounds of the model *)

MaxMsgs == 3
MaxTicks == 3
MaxCloses == 1
MaxRaceMsgs == 2
MaxUpdates == 7
Epoch == 10
MantissaBits == 5
MaxFeeds == 6

---------------------------------------------------------------------------
(* Configuration *)

SYNC_TIMEOUT == 2

Variants == {"appws", "appplot", "app_plot_2", "app_plot_3"}

KeySeq == <<"rssi1", "rssi2", "rssi3">>
Keys == {KeySeq[j] : j \in 1..3}

RssiVals == {-70, -60}

Esps == {"e1", "e2"}
Browsers == {"b1", "b2", "b3"}
Conns == Esps \cup Browsers

\* appws.py, appplot.py, app_plot_2.py: one endpoint, every connection is a
\* client;  app_plot_3.py: only /ws/client connections are.
SharedEndpoint(v) == v # "app_plot_3"

IsSubscriber(v, c) == SharedEndpoint(v) \/ c \in Browsers

\* What the publish loop's except clause does with a failed client.
OnSendFailure(v, synced) ==
    CASE v = "appws" -> "keep"
      [] v \in {"appplot", "app_plot_2"} -> "remove"
      [] v = "app_plot_3" -> "check_remove"

\* Whether the else branch of the gate publishes the raw readings.
DegradedPublishes(v) == v \in {"appws", "app_plot_3"}

---------------------------------------------------------------------------
(* Exact rationals [n, d], d > 0, in lowest terms *)

Abs(a) == IF a < 0 THEN -a ELSE a

RECURSIVE GCD(_, _)
GCD(a, b) == IF b = 0 THEN a ELSE GCD(b, a % b)

Q(n, d) ==
    LET s == IF d < 0 THEN -1 ELSE 1
        g == GCD(Abs(n), Abs(d))
    IN  [n |-> (s * n) \div g, d |-> (s * d) \div g]

QInt(a) == [n |-> a, d |-> 1]
QAdd(p, q) ==
    LET g == GCD(p.d, q.d)
    IN  Q(p.n * (q.d \div g) + q.n * (p.d \div g), (p.d \div g) * q.d)
QMul(p, q) == Q(p.n * q.n, p.d * q.d)
QDiv(p, q) == Q(p.n * q.d, p.d * q.n)
QLess(p, q) ==
    LET g == GCD(p.d, q.d)
    IN  p.n * (q.d \div g) < q.n * (p.d \div g)

\* round(v, 2): to the nearest hundredth, ties to the even hundredth.
Round2(q) ==
    LET t == 100 * q.n
        f == t \div q.d
        r2 == 2 * (t % q.d)
        h == IF r2 > q.d \/ (r2 = q.d /\ f % 2 = 1) THEN f + 1 ELSE f
    IN  Q(h, 100)

---------------------------------------------------------------------------
(* Floats: rationals of MantissaBits significant bits (53 in CPython),     *)
(* every operation rounded to the nearest one, ties to the even mantissa.  *)
(* The exponent is not bounded: nothing overflows or underflows.           *)

QNeg(q) == [n |-> -q.n, d |-> q.d]
QSub(p, q) == QAdd(p, QNeg(q))
QAbs(q) == [n |-> Abs(q.n), d |-> q.d]
QLeq(p, q) == ~QLess(q, p)

RECURSIVE Pow2(_)
Pow2(k) == IF k = 0 THEN 1 ELSE 2 * Pow2(k - 1)

\* The integer nearest to q >= 0, the even one of two equally near.
RoundEven(q) ==
    LET f == q.n \div q.d
        r2 == 2 * (q.n % q.d)
    IN  IF r2 < q.d THEN f
        ELSE IF r2 > q.d THEN f + 1
        ELSE IF f % 2 = 0 THEN f ELSE f + 1

\* The unit in the last place of a > 0: the power of two u, searched from
\* u up or down, with 2^(MantissaBits - 1) <= a / u < 2^MantissaBits.
RECURSIVE Ulp(_, _)
Ulp(a, u) ==
    IF QLeq(QMul(QInt(Pow2(MantissaBits)), u), a)
    THEN Ulp(a, QMul(u, QInt(2)))
    ELSE IF QLess(a, QMul(QInt(Pow2(MantissaBits - 1)), u))
    THEN Ulp(a, QDiv(u, QInt(2)))
    ELSE u

\* The float nearest to q.
fl(q) ==
    IF q.n = 0 THEN q
    ELSE LET u == Ulp(QAbs(q), QInt(1))
             m == RoundEven(QDiv(QAbs(q), u))
         IN  QMul(QInt(IF q.n < 0 THEN -m ELSE m), u)

\* x + y, x - y, x * y, x / y on floats
FAdd(x, y) == fl(QAdd(x, y))
FSub(x, y) == fl(QSub(x, y))
FMul(x, y) == fl(QMul(x, y))
FDiv(x, y) == fl(QDiv(x, y))

---------------------------------------------------------------------------
(* Lists *)

InList(s, c) == \E j \in 1..Len(s) : s[j] = c

\* list.remove(c): drops the first occurrence (the caller checks InList).
ListRemove(s, c) ==
    LET j == CHOOSE m \in 1..Len(s) :
                 s[m] = c /\ \A q \in 1..(m - 1) : s[q] # c
    IN  SubSeq(s, 1, j - 1) \o SubSeq(s, j + 1, Len(s))

Last(s) == s[Len(s)]

RECURSIVE InsertSorted(_, _)
InsertSorted(x, s) ==
    IF s = <<>> THEN <<x>>
    ELSE IF ~QLess(Head(s), x) THEN <<x>> \o s
    ELSE <<Head(s)>> \o InsertSorted(x, Tail(s))

RECURSIVE sorted(_)
sorted(s) == IF s = <<>> THEN <<>> ELSE InsertSorted(Head(s), sorted(Tail(s)))

RECURSIVE SumSeq(_)
SumSeq(s) == IF s = <<>> THEN QInt(0) ELSE QAdd(Head(s), SumSeq(Tail(s)))

---------------------------------------------------------------------------
(* Filters *)

MA_WINDOW == 5
MEDIAN_WINDOW_2 == 5
MEDIAN_WINDOW_3 == 7

\* The window with pop() for pop(0): the newest value is evicted.
WindowPush_newest(window, window_size, value) ==
    LET w == Append(window, value)
    IN  IF Len(w) > window_size THEN SubSeq(w, 1, window_size) ELSE w

\* self.window.append(value); if len(self.window) > self.window_size: pop(0)
WindowPush(window, window_size, value) ==
    LET w == Append(window, value)
    IN  IF Len(w) > window_size THEN Tail(w) ELSE w

\* sum(self.window) / len(self.window)
Mean(window) == QDiv(SumSeq(window), QInt(Len(window)))

\* statistics.median(self.window)
Median(window) ==
    LET s == sorted(window)
        n == Len(s)
    IN  IF n % 2 = 1 THEN s[(n + 1) \div 2]
        ELSE QDiv(QAdd(s[n \div 2], s[n \div 2 + 1]), QInt(2))

\* A value the model does not compute (a power, a least-squares solution)
\* is kept as the term of the function applied to its arguments.
Term(op, args) == [op |-> op, of |-> args]
IsNum(v) == DOMAIN v = {"n", "d"}

SMOOTH_ALPHA == Q(1, 4)
COORD_ALPHA == Q(1, 5)

\* ExponentialSmoother.update; self.last is <<>> for None, <<v>> otherwise.
\* In exact arithmetic the blend of a value with itself is the value, also
\* for a value kept as a term.
SmootherUpdate(alpha, last, value) ==
    IF last = <<>> THEN value
    ELSE IF IsNum(value) /\ IsNum(last[1])
         THEN QAdd(QMul(alpha, value),
                   QMul(QAdd(QInt(1), QMul(QInt(-1), alpha)), last[1]))
         ELSE IF value = last[1] THEN value
         ELSE Term("alpha*value+(1-alpha)*last", <<alpha, value, last[1]>>)

\* 10 ** ((A - rssi_filtered) / (10 * n)), A and n fitted on every call.
rssi_to_distance(rssi_filtered) == Term("rssi_to_distance", <<rssi_filtered>>)

\* A, n = calibrate_path_loss(calib_distances, calib_rssi) inside
\* rssi_to_distance: the curve_fit calls that `calls` conversions make.
FitsOf(calls) == calls

\* estimate_position_from_rssi(x, y, z, D1, D2): (l, m, resid, success)
estimate_position_from_rssi(x, y, z) ==
    [l |-> Term("estimate_position.l", <<x, y, z>>),
     m |-> Term("estimate_position.m", <<x, y, z>>)]

\* appws.py, appplot.py: l = sqrt(|x^2 - ((x^2 - y^2 + d1^2)/(2 d1))^2|),
\*                       m = sqrt(|z^2 - ((x^2 - y^2 + d2^2)/(2 d2))^2|)
closed_form_position(x, y, z) ==
    [l |-> Term("closed_form.l", <<x, y>>),
     m |-> Term("closed_form.m", <<x, y, z>>)]

round2(v) == IF IsNum(v) THEN Round2(v) ELSE Term("round2", <<v>>)

InitFilters ==
    [ma |-> [k \in Keys |-> <<>>],
     smooth |-> [k \in Keys |-> <<>>],
     coord_l |-> <<>>,
     coord_m |-> <<>>]

\* The filter stage of handle_rssi_data on the raw readings r (by key):
\* the filtered values, the window each was computed over, and the filter
\* objects afterwards.
FilterStage(v, f, r) ==
    CASE v \in {"appws", "appplot"} ->
            \* one MovingAverageFilter() made here and fed r1, r2, r3 in turn
            LET w1 == WindowPush(<<>>, MA_WINDOW, r["rssi1"])
                w2 == WindowPush(w1, MA_WINDOW, r["rssi2"])
                w3 == WindowPush(w2, MA_WINDOW, r["rssi3"])
                w == [rssi1 |-> w1, rssi2 |-> w2, rssi3 |-> w3]
            IN  [filt |-> [k \in Keys |-> Mean(w[k])],
                 win |-> w,
                 filters |-> f]
      [] v = "app_plot_2" ->
            \* three MedianFilter() made here, one per anchor
            LET w == [k \in Keys |-> WindowPush(<<>>, MEDIAN_WINDOW_2, r[k])]
            IN  [filt |-> [k \in Keys |-> Median(w[k])],
                 win |-> w,
                 filters |-> f]
      [] v = "app_plot_3" ->
            LET ma == [k \in Keys |-> WindowPush(f.ma[k], MEDIAN_WINDOW_3, r[k])]
                sm == [k \in Keys |->
                          SmootherUpdate(SMOOTH_ALPHA, f.smooth[k], Median(ma[k]))]
            IN  [filt |-> sm,
                 win |-> ma,
                 filters |-> [f EXCEPT !.ma = ma,
                                       !.smooth = [k \in Keys |-> <<sm[k]>>]]]

---------------------------------------------------------------------------
(* Position solver (app_plot_2.py, app_plot_3.py) *)

\* Lengths are in centimetres.  A coordinate is an exact rational.  A
\* distance is kept by its sign and its square, sgn * sqrt(sq), so that the
\* squares the linear system is built from are exact; NaN and +inf are the
\* floats that are no number.  Where the code compares residuals, square
\* roots are taken to the millimetre, rounded down.
Dist(sgn, sq) == [kind |-> "num", sgn |-> sgn, sq |-> sq]
NaN == [kind |-> "nan", sgn |-> 1, sq |-> 0]
Inf == [kind |-> "inf", sgn |-> 1, sq |-> 0]

Coord(q) == [kind |-> "num", n |-> q.n, d |-> q.d]
NaNCoord == [kind |-> "nan", n |-> 0, d |-> 1]
None == [kind |-> "none", n |-> 0, d |-> 1]

\* A residual norm in millimetres, or NaN, or np.inf.
Resid(mm) == [kind |-> "num", mm |-> mm]
NaNResid == [kind |-> "nan", mm |-> 0]
InfResid == [kind |-> "inf", mm |-> 0]

\* a < b on residuals, as floats compare: anything against NaN is False.
ResidLess(a, b) ==
    /\ a.kind = "num"
    /\ b.kind \in {"num", "inf"}
    /\ b.kind = "num" => a.mm < b.mm

Max(a, b) == IF a > b THEN a ELSE b

\* floor(sqrt(n)), by bisection between lo and hi (lo^2 <= n < hi^2).
RECURSIVE Bisect(_, _, _)
Bisect(n, lo, hi) ==
    IF hi - lo <= 1 THEN lo
    ELSE LET mid == (lo + hi) \div 2
         IN  IF mid * mid <= n THEN Bisect(n, mid, hi) ELSE Bisect(n, lo, mid)

ISqrt(n) == Bisect(n, 0, IF n < 4194304 THEN 2048 ELSE 46341)

\* n / d to the nearest integer (d > 0).
RoundDiv(n, d) == (2 * n + d) \div (2 * d)

MIN_D == 5
ROOM_MARGIN == 10
GRID_RES == 5
RESID_FLOOR == 500

\* np.clip(d, min_d, max_d) = minimum(maximum(d, min_d), max_d) on one
\* distance, the bounds given by their squares: NaN stays NaN.
Clip(d, min_sq, max_sq) ==
    CASE d.kind = "nan" -> NaN
      [] d.kind = "inf" -> Dist(1, max_sq)
      [] d.kind = "num" ->
            LET m == IF d.sgn < 0 \/ d.sq < min_sq THEN min_sq ELSE d.sq
            IN  Dist(1, IF m > max_sq THEN max_sq ELSE m)

\* sanitize_distances(distances, room_diag, min_d): max_d = room_diag * 1.2;
\* room_diag is given by its square (rooms are multiples of 5 cm, so that
\* 1.44 * diag_sq is a whole number).
sanitize_distances(distances, diag_sq, min_d) ==
    [j \in 1..Len(distances) |->
        Clip(distances[j], min_d * min_d, (144 * diag_sq) \div 100)]

\* The distance sgn * sqrt(sq) cm in millimetres.
DistMm(d) == d.sgn * ISqrt(100 * d.sq)

\* np.linalg.norm(est_dists - r) at the point (px, py), est_dists being the
\* distances from the receivers to the point.
ResidualNorm(positions, distances, px, py) ==
    IF \E j \in 1..Len(distances) : distances[j].kind # "num"
       \/ px.kind # "num" \/ py.kind # "num"
    THEN NaNResid
    ELSE LET xm == RoundDiv(10 * px.n, px.d)
             ym == RoundDiv(10 * py.n, py.d)
             err(j) ==
                 LET dx == 10 * positions[j][1] - xm
                     dy == 10 * positions[j][2] - ym
                 IN  ISqrt(dx * dx + dy * dy) - DistMm(distances[j])
             e1 == err(1)
             e2 == err(2)
             e3 == err(3)
         IN  Resid(ISqrt(e1 * e1 + e2 * e2 + e3 * e3))

\* lstsq with the off-diagonal entries of A taken for 0.
lstsq_diag(A, b) ==
    IF A[1][1] * A[2][2] # 0
    THEN [rank |-> 2, px |-> Q(b[1], A[1][1]), py |-> Q(b[2], A[2][2])]
    ELSE [rank |-> 0, px |-> QInt(0), py |-> QInt(0)]

\* np.linalg.lstsq(A, b) for the 2 x 2 system: the solution when A has
\* rank 2, else the least-squares solution of least norm, A^T b / |A|_F^2.
lstsq(A, b) ==
    LET det == A[1][1] * A[2][2] - A[1][2] * A[2][1]
        fro == A[1][1] * A[1][1] + A[1][2] * A[1][2]
               + A[2][1] * A[2][1] + A[2][2] * A[2][2]
    IN  IF det # 0
        THEN [rank |-> 2,
              px |-> QAdd(QMul(QInt(b[1]), Q(A[2][2], det)),
                          QMul(QInt(b[2]), Q(-A[1][2], det))),
              py |-> QAdd(QMul(QInt(b[2]), Q(A[1][1], det)),
                          QMul(QInt(b[1]), Q(-A[2][1], det)))]
        ELSE IF fro # 0
        THEN [rank |-> 1,
              px |-> QAdd(QMul(QInt(b[1]), Q(A[1][1], fro)),
                          QMul(QInt(b[2]), Q(A[2][1], fro))),
              py |-> QAdd(QMul(QInt(b[1]), Q(A[1][2], fro)),
                          QMul(QInt(b[2]), Q(A[2][2], fro)))]
        ELSE [rank |-> 0, px |-> QInt(0), py |-> QInt(0)]

\* What a call that raised returns to the model.
Raised(exc, computed) ==
    [err |-> exc, computed |-> computed, px |-> None, py |-> None,
     resid_norm |-> InfResid, success |-> FALSE]

RankOk_any(rank) == rank >= 1

\* rank >= 2
RankOk(rank) == rank >= 2

\* multilateration_least_squares(positions, distances), weights = None,
\* for at most 3 receivers: (px, py, resid_norm, rank >= 2), or the
\* exception raised and whether lstsq had been computed by then.
multilateration_least_squares(positions, distances) ==
    LET N == Len(positions)
    IN  IF N < 3 THEN Raised("ValueError: Need at least 3 receivers", FALSE)
        ELSE IF Len(distances) < N THEN Raised("IndexError", FALSE)
        ELSE
        LET x0 == positions[1][1]
            y0 == positions[1][2]
            A == [i \in 1..2 |-> <<2 * (positions[i + 1][1] - x0),
                                   2 * (positions[i + 1][2] - y0)>>]
            nan == \E j \in 1..N : distances[j].kind # "num"
            b == [i \in 1..2 |->
                     IF nan THEN 0
                     ELSE (distances[1].sq - distances[i + 1].sq)
                          - (x0 * x0 - positions[i + 1][1] * positions[i + 1][1])
                          - (y0 * y0 - positions[i + 1][2] * positions[i + 1][2])]
            sol == lstsq(A, b)
            px == IF nan THEN NaNCoord ELSE Coord(sol.px)
            py == IF nan THEN NaNCoord ELSE Coord(sol.py)
        IN  IF Len(distances) > N
            THEN Raised("ValueError: operands could not be broadcast", TRUE)
            ELSE [err |-> "none", computed |-> TRUE, px |-> px, py |-> py,
                  resid_norm |-> ResidualNorm(positions, distances, px, py),
                  success |-> RankOk(sol.rank)]

\* np.arange(lo, hi + 1e-9, res)
Axis(lo, hi, res) ==
    [k \in 1..(IF hi < lo THEN 0 ELSE (hi - lo) \div res + 1) |->
        lo + (k - 1) * res]

\* if resid < best[2]: best = (px, py, resid), with <= for <: among equal
\* residuals the last point scanned is kept.
Better_le(resid, best) ==
    resid.kind = "num" /\ ~ResidLess(best, resid)

\* if resid < best[2]: best = (px, py, resid)
Better(resid, best) == ResidLess(resid, best)

\* for px, py in P: ..., for the points lo..hi of P in turn, starting from
\* best.  P = np.array(np.meshgrid(xs, ys)).T.reshape(-1, 2) holds, for each
\* x in turn, every y in turn: x is the outer index, y the inner one.  The
\* run is split in two halves only to keep the evaluation shallow; the left
\* half is evaluated (its kind looked at) before the right half starts.
RECURSIVE Scan(_, _, _, _, _, _, _)
Scan(positions, distances, xs, ys, lo, hi, best) ==
    IF lo > hi THEN best
    ELSE IF lo = hi
    THEN LET px == Coord(QInt(xs[((lo - 1) \div Len(ys)) + 1]))
             py == Coord(QInt(ys[((lo - 1) % Len(ys)) + 1]))
             resid == ResidualNorm(positions, distances, px, py)
         IN  IF Better(resid, best.resid)
             THEN [px |-> px, py |-> py, resid |-> resid]
             ELSE best
    ELSE LET mid == (lo + hi) \div 2
             left == Scan(positions, distances, xs, ys, lo, mid, best)
         IN  IF left.resid.kind \in {"num", "inf"}
             THEN Scan(positions, distances, xs, ys, mid + 1, hi, left)
             ELSE left

\* coarse_grid_search(positions, distances, room_bounds, grid_res):
\* best = (None, None, np.inf) to begin with.
coarse_grid_search(positions, distances, room_bounds, grid_res) ==
    LET xs == Axis(room_bounds[1], room_bounds[2], grid_res)
        ys == Axis(room_bounds[3], room_bounds[4], grid_res)
    IN  Scan(positions, distances, xs, ys, 1, Len(xs) * Len(ys),
             [px |-> None, py |-> None, resid |-> InfResid])

\* The receivers of estimate_position_from_rssi.
Receivers(D1, D2) == <<<<0, 0>>, <<D1, 0>>, <<0, D2>>>>

RoomBounds(D1, D2) ==
    <<-ROOM_MARGIN, D1 + ROOM_MARGIN, -ROOM_MARGIN, D2 + ROOM_MARGIN>>

\* max(0.5, 0.1 * room_diag), in millimetres
ResidLimit(D1, D2) == Max(RESID_FLOOR, ISqrt(100 * (D1 * D1 + D2 * D2)) \div 10)

\* estimate_position_from_rssi(r1, r2, r3, D1, D2) of app_plot_2.py (v) and
\* of app_plot_3.py: (px, py, resid, success), with the sanitized distances,
\* the linear solution it went through and, where it ran one, the grid
\* search's result.
estimate_position(v, r1, r2, r3, D1, D2) ==
    LET positions == Receivers(D1, D2)
        dists == sanitize_distances(<<r1, r2, r3>>, D1 * D1 + D2 * D2, MIN_D)
        lin == multilateration_least_squares(positions, dists)
        degenerate == ~lin.success \/ lin.px.kind = "nan" \/ lin.py.kind = "nan"
        over == ResidLess(Resid(ResidLimit(D1, D2)), lin.resid_norm)
        g == coarse_grid_search(positions, dists, RoomBounds(D1, D2), GRID_RES)
        fallback ==
            IF v = "app_plot_2"
            THEN degenerate \/ (over /\ ResidLess(g.resid, lin.resid_norm))
            ELSE degenerate \/ over
    IN  [px |-> IF fallback THEN g.px ELSE lin.px,
         py |-> IF fallback THEN g.py ELSE lin.py,
         resid |-> IF fallback THEN g.resid ELSE lin.resid_norm,
         success |-> ~fallback,
         dists |-> dists, lin |-> lin, rejected |-> degenerate \/ over,
         grid |-> IF degenerate \/ over THEN <<g>> ELSE <<>>]

---------------------------------------------------------------------------
(* Messages and handler locals *)

\* A message is the dict json.loads returns: a function on the keys it holds.
Msgs ==
    {m \in UNION {[S -> RssiVals] :
                     S \in {{}, {"rssi1"}, {"rssi2"}, {"rssi3"}, Keys}} :
        \A j, k \in DOMAIN m : m[j] = m[k]}

\* float(data[key])
Float(v) == QInt(v)

\* Index in KeySeq of the first key of m at or after position from, else 0:
\* for key in ["rssi1", "rssi2", "rssi3"]: if key in data
NextKey(m, from) ==
    IF \E j \in from..3 : KeySeq[j] \in DOMAIN m
    THEN CHOOSE j \in from..3 :
             KeySeq[j] \in DOMAIN m /\ \A q \in from..(j - 1) : KeySeq[q] \notin DOMAIN m
    ELSE 0

InitEspData == [k \in Keys |-> [value |-> <<>>, timestamp |-> 0]]

InitHist == [k \in Keys |-> <<>>]

\* Nothing is exercised on its own: the server is running.
Idle == [fn |-> "none"]

\* The locals of one handle_rssi_data call, with the record of what the call
\* did: the stages it ran, the send attempts of its publish loop.
NoEvent ==
    [ct |-> 0, data |-> <<>>, k |-> 0,
     gate |-> "none", seen |-> InitEspData,
     r |-> [k \in Keys |-> QInt(0)], filt |-> <<>>, win |-> <<>>,
     payload |-> <<>>, snap |-> <<>>, i |-> 0,
     stages |-> {}, tried |-> <<>>, failed |-> {}, sent |-> {},
     raised |-> FALSE, done |-> FALSE, fin_raised |-> FALSE]

\* The gate with <= for <: an anchor exactly SYNC_TIMEOUT old passes.
AllFresh_le(data, current_time) ==
    \A k \in Keys :
        /\ data[k].value # <<>>
        /\ current_time - data[k].timestamp <= SYNC_TIMEOUT

\* The gate with any() for all(): one fresh anchor is enough.
AllFresh_any(data, current_time) ==
    \E k \in Keys :
        /\ data[k].value # <<>>
        /\ current_time - data[k].timestamp < SYNC_TIMEOUT

\* The gate with the window one second short.
AllFresh_short(data, current_time) ==
    \A k \in Keys :
        /\ data[k].value # <<>>
        /\ current_time - data[k].timestamp < SYNC_TIMEOUT - 1

\* all(esp_data[k]["value"] and current_time - esp_data[k]["timestamp"]
\*     < SYNC_TIMEOUT for k in esp_data)
AllFresh(data, current_time) ==
    \A k \in Keys :
        /\ data[k].value # <<>>
        /\ current_time - data[k].timestamp < SYNC_TIMEOUT

\* The readings with [0] for [-1]: the oldest sample of each anchor.
LastValues_first(data) == [k \in Keys |-> Head(data[k].value)]

\* r1 = esp_data["rssi1"]["value"][-1] ...
LastValues(data) == [k \in Keys |-> Last(data[k].value)]

\* The page out of sync: the last sample of each anchor, <<>> for None.
LastOrNone(data) ==
    [k \in Keys |-> IF data[k].value = <<>> THEN <<>> ELSE <<Last(data[k].value)>>]

\* The degraded readings with [0] for [-1].
LastOrZero_first(data) ==
    [k \in Keys |-> IF data[k].value = <<>> THEN QInt(0) ELSE Head(data[k].value)]

\* r1 = 0.0; try: r1 = esp_data["rssi1"]["value"][-1]; except IndexError: pass
LastOrZero(data) ==
    [k \in Keys |-> IF data[k].value = <<>> THEN QInt(0) ELSE Last(data[k].value)]

\* The conversion, solve and smoothing stages on the filtered values: the
\* payload and the filter objects afterwards.
SolveStage(v, f, r, filt) ==
    LET x == rssi_to_distance(filt["rssi1"])
        y == rssi_to_distance(filt["rssi2"])
        z == rssi_to_distance(filt["rssi3"])
        pos == IF v \in {"appws", "appplot"}
               THEN closed_form_position(x, y, z)
               ELSE estimate_position_from_rssi(x, y, z)
        l == IF v = "app_plot_3"
             THEN SmootherUpdate(COORD_ALPHA, f.coord_l, pos.l) ELSE pos.l
        m == IF v = "app_plot_3"
             THEN SmootherUpdate(COORD_ALPHA, f.coord_m, pos.m) ELSE pos.m
        raw == [k \in Keys |-> IF v = "app_plot_3" THEN round2(r[k]) ELSE r[k]]
    IN  [payload |-> [rssi1 |-> raw["rssi1"], rssi2 |-> raw["rssi2"],
                      rssi3 |-> raw["rssi3"],
                      x |-> round2(x), y |-> round2(y), z |-> round2(z),
                      l |-> round2(l), m |-> round2(m)],
         filters |-> IF v = "app_plot_3"
                     THEN [f EXCEPT !.coord_l = <<l>>, !.coord_m = <<m>>]
                     ELSE f,
         fits |-> FitsOf(Len(<<x, y, z>>))]

\* payload = {"rssi1": r1, "rssi2": r2, "rssi3": r3}
DegradedPayload(data) ==
    LET r == LastOrZero(data)
    IN  [rssi1 |-> r["rssi1"], rssi2 |-> r["rssi2"], rssi3 |-> r["rssi3"]]

---------------------------------------------------------------------------
(* State machine *)

Init ==
    /\ variant \in Variants
    /\ now = Epoch
    /\ esp_data = InitEspData
    /\ clients = <<>>
    /\ filters = InitFilters
    /\ conn = [c \in Conns |-> "none"]
    /\ pc = [c \in Conns |-> "off"]
    /\ loc = [c \in Conns |-> NoEvent]
    /\ nmsgs = 0
    /\ hist = InitHist
    /\ fits = 0
    /\ probe = Idle

\* Connections of one kind are interchangeable: they are opened in order.
Before == {<<"e1", "e2">>, <<"b1", "b2">>, <<"b2", "b3">>}

\* ws / ws_esp / ws_client is entered: clients.append(ws)
Connect(c) ==
    /\ pc[c] = "off"
    /\ \A p \in Before : p[2] = c => pc[p[1]] # "off"
    /\ conn' = [conn EXCEPT ![c] = "open"]
    /\ pc' = [pc EXCEPT ![c] = "recv"]
    /\ clients' = IF IsSubscriber(variant, c) THEN Append(clients, c) ELSE clients
    /\ UNCHANGED <<variant, now, esp_data, filters, loc, nmsgs, hist, fits, probe>>

\* The peer goes away: later sends raise, receive returns None.
PeerClose(c) ==
    /\ c \in Browsers
    /\ Cardinality({b \in Browsers : conn[b] = "dead"}) < MaxCloses
    /\ conn[c] \in {"open", "stalled"}
    /\ conn' = [conn EXCEPT ![c] = "dead"]
    /\ UNCHANGED <<variant, now, esp_data, clients, filters, pc, loc, nmsgs, hist, fits, probe>>

\* The peer stops reading (its buffers are full): a send to it blocks.
Stall(c) ==
    /\ c \in Browsers
    /\ conn[c] = "open"
    /\ \A b \in Browsers : conn[b] # "stalled"
    /\ conn' = [conn EXCEPT ![c] = "stalled"]
    /\ UNCHANGED <<variant, now, esp_data, clients, filters, pc, loc, nmsgs, hist, fits, probe>>

Resume(c) ==
    /\ conn[c] = "stalled"
    /\ conn' = [conn EXCEPT ![c] = "open"]
    /\ UNCHANGED <<variant, now, esp_data, clients, filters, pc, loc, nmsgs, hist, fits, probe>>

\* msg = ws.receive(); data = json.loads(msg); handle_rssi_data(data):
\* current_time = time().  The clock is read nowhere else, so it is moved
\* here: the reading is d seconds after the previous one (the first is Epoch).
Receive(t, m, d) ==
    /\ t \in Esps
    /\ pc[t] = "recv"
    /\ conn[t] = "open"
    /\ nmsgs < MaxMsgs
    /\ nmsgs' = nmsgs + 1
    /\ now + d <= Epoch + MaxTicks
    /\ nmsgs = 0 => d = 0
    /\ now' = now + d
    /\ loc' = [loc EXCEPT ![t] =
                  [NoEvent EXCEPT !.ct = now', !.data = m, !.k = NextKey(m, 1)]]
    /\ pc' = [pc EXCEPT ![t] = IF NextKey(m, 1) = 0 THEN "gate" ELSE "store"]
    /\ UNCHANGED <<variant, esp_data, clients, filters, conn, hist, fits, probe>>

\* esp_data[key]["value"].append(float(data[key]))
StoreValue(t) ==
    /\ pc[t] = "store"
    /\ LET key == KeySeq[loc[t].k]
       IN  esp_data' = [esp_data EXCEPT
                           ![key].value = Append(@, Float(loc[t].data[key]))]
    /\ pc' = [pc EXCEPT ![t] = "stamp"]
    /\ UNCHANGED <<variant, now, clients, filters, conn, loc, nmsgs, hist, fits, probe>>

\* esp_data[key]["timestamp"] = current_time, and on to the next key
StoreStamp(t) ==
    /\ pc[t] = "stamp"
    /\ LET key == KeySeq[loc[t].k]
           nk == NextKey(loc[t].data, loc[t].k + 1)
       IN  /\ esp_data' = [esp_data EXCEPT ![key].timestamp = loc[t].ct]
           /\ loc' = [loc EXCEPT ![t].k = nk]
           /\ pc' = [pc EXCEPT ![t] = IF nk = 0 THEN "gate" ELSE "store"]
    /\ UNCHANGED <<variant, now, clients, filters, conn, nmsgs, hist, fits, probe>>

\* if all(...): ... else: ...
Gate(t) ==
    /\ pc[t] = "gate"
    /\ LET fresh == AllFresh(esp_data, loc[t].ct)
       IN  /\ loc' = [loc EXCEPT
                         ![t].gate = IF fresh THEN "fresh" ELSE "stale",
                         ![t].seen = esp_data,
                         ![t].done = ~fresh /\ ~DegradedPublishes(variant)]
           /\ pc' = [pc EXCEPT ![t] =
                        IF fresh THEN "filter"
                        ELSE IF DegradedPublishes(variant) THEN "degraded"
                        ELSE "ret"]
    /\ UNCHANGED <<variant, now, esp_data, clients, filters, conn, nmsgs, hist, fits, probe>>

\* r1, r2, r3 are read and the filters updated.
FilterStep(t) ==
    /\ pc[t] = "filter"
    /\ LET r == LastValues(esp_data)
           st == FilterStage(variant, filters, r)
       IN  /\ filters' = st.filters
           /\ loc' = [loc EXCEPT ![t].r = r, ![t].filt = st.filt,
                                 ![t].win = st.win,
                                 ![t].stages = @ \cup {"filter"}]
           /\ hist' = [k \in Keys |-> Append(hist[k], r[k])]
    /\ pc' = [pc EXCEPT ![t] = "solve"]
    /\ UNCHANGED <<variant, now, esp_data, clients, conn, nmsgs, fits, probe>>

\* What the handler does once client i of its snapshot is dealt with.
AfterClient(t, l) ==
    IF l.i >= Len(l.snap)
    THEN [pc |-> "ret", loc |-> [l EXCEPT !.done = TRUE]]
    ELSE [pc |-> "send", loc |-> [l EXCEPT !.i = @ + 1]]

\* for client in browser_clients[:]: the copy is taken, the loop entered.
StartPublish(t, l, payload) ==
    LET l1 == [l EXCEPT !.payload = payload, !.snap = clients, !.i = 1,
                        !.stages = @ \cup {"publish"}]
    IN  IF clients = <<>>
        THEN [pc |-> "ret", loc |-> [l1 EXCEPT !.done = TRUE]]
        ELSE [pc |-> "send", loc |-> l1]

\* Distances, position, payload; the publish loop starts.
SolveStep(t) ==
    /\ pc[t] = "solve"
    /\ LET st == SolveStage(variant, filters, loc[t].r, loc[t].filt)
           l1 == [loc[t] EXCEPT !.stages = @ \cup {"convert", "solve"}]
           nx == StartPublish(t, l1, st.payload)
       IN  /\ filters' = st.filters
           /\ loc' = [loc EXCEPT ![t] = nx.loc]
           /\ pc' = [pc EXCEPT ![t] = nx.pc]
           /\ fits' = fits + st.fits
    /\ UNCHANGED <<variant, now, esp_data, clients, conn, nmsgs, hist, probe>>

\* The else branch of appws.py and app_plot_3.py.
DegradedStep(t) ==
    /\ pc[t] = "degraded"
    /\ LET nx == StartPublish(t, loc[t], DegradedPayload(esp_data))
       IN  /\ loc' = [loc EXCEPT ![t] = nx.loc]
           /\ pc' = [pc EXCEPT ![t] = nx.pc]
    /\ UNCHANGED <<variant, now, esp_data, clients, filters, conn, nmsgs, hist, fits, probe>>

\* client.send(json.dumps(payload)): returns, or raises on a closed
\* connection; it does not return while the peer is not reading.
Send(t) ==
    /\ pc[t] = "send"
    /\ LET c == loc[t].snap[loc[t].i]
           l1 == [loc[t] EXCEPT !.tried = Append(@, c)]
       IN  /\ conn[c] # "stalled"
           /\ IF conn[c] = "open"
              THEN LET nx == AfterClient(t, [l1 EXCEPT !.sent = @ \cup {c}])
                   IN  /\ loc' = [loc EXCEPT ![t] = nx.loc]
                       /\ pc' = [pc EXCEPT ![t] = nx.pc]
              ELSE LET l2 == [l1 EXCEPT !.failed = @ \cup {c}]
                       how == OnSendFailure(variant, loc[t].gate = "fresh")
                       nx == AfterClient(t, l2)
                   IN  /\ loc' = [loc EXCEPT ![t] =
                                     IF how = "keep" THEN nx.loc ELSE l2]
                       /\ pc' = [pc EXCEPT ![t] =
                                    CASE how = "keep" -> nx.pc
                                      [] how = "remove" -> "rm"
                                      [] how = "check_remove" -> "rmchk"]
    /\ UNCHANGED <<variant, now, esp_data, clients, filters, conn, nmsgs, hist, fits, probe>>

\* handle_rssi_data returns to the receive loop of its endpoint.
Return(t) ==
    /\ pc[t] = "ret"
    /\ pc' = [pc EXCEPT ![t] = "recv"]
    /\ loc' = [loc EXCEPT ![t] = NoEvent]
    /\ UNCHANGED <<variant, now, esp_data, clients, filters, conn, nmsgs, hist, fits, probe>>

\* if client in browser_clients:
RemoveCheck(t) ==
    /\ pc[t] = "rmchk"
    /\ LET c == loc[t].snap[loc[t].i]
           nx == AfterClient(t, loc[t])
       IN  IF InList(clients, c)
           THEN /\ pc' = [pc EXCEPT ![t] = "rm"]
                /\ loc' = loc
           ELSE /\ pc' = [pc EXCEPT ![t] = nx.pc]
                /\ loc' = [loc EXCEPT ![t] = nx.loc]
    /\ UNCHANGED <<variant, now, esp_data, clients, filters, conn, nmsgs, hist, fits, probe>>

\* Where a handler goes when an exception leaves its receive loop, or the
\* loop ends: the finally clause of its endpoint.
Finally(v, c) ==
    IF SharedEndpoint(v) THEN "fin"
    ELSE IF c \in Browsers THEN "finchk"
    ELSE "ended"

\* clients.remove(c): ValueError when c is not in the list; the exception
\* leaves handle_rssi_data and ends the handler's receive loop.
Remove(t) ==
    /\ pc[t] = "rm"
    /\ LET c == loc[t].snap[loc[t].i]
           nx == AfterClient(t, loc[t])
       IN  IF InList(clients, c)
           THEN /\ clients' = ListRemove(clients, c)
                /\ pc' = [pc EXCEPT ![t] = nx.pc]
                /\ loc' = [loc EXCEPT ![t] = nx.loc]
                /\ conn' = conn
           ELSE /\ clients' = clients
                /\ pc' = [pc EXCEPT ![t] = Finally(variant, t)]
                /\ loc' = [loc EXCEPT ![t].raised = TRUE]
                /\ conn' = IF Finally(variant, t) = "ended"
                           THEN [conn EXCEPT ![t] = "dead"] ELSE conn
    /\ UNCHANGED <<variant, now, esp_data, filters, nmsgs, hist, fits, probe>>

\* ws.receive() returns None (the peer is gone), or, in ws_client, its
\* 60 s timeout passes: the loop is left.
HandlerExit(c) ==
    /\ pc[c] = "recv"
    /\ \/ conn[c] = "dead"
       \/ variant = "app_plot_3" /\ c \in Browsers
    /\ pc' = [pc EXCEPT ![c] = Finally(variant, c)]
    /\ conn' = IF Finally(variant, c) = "ended"
               THEN [conn EXCEPT ![c] = "dead"] ELSE conn
    /\ UNCHANGED <<variant, now, esp_data, clients, filters, loc, nmsgs, hist, fits, probe>>

\* finally: if ws in browser_clients:
FinCheck(c) ==
    /\ pc[c] = "finchk"
    /\ pc' = [pc EXCEPT ![c] = IF InList(clients, c) THEN "finrm" ELSE "ended"]
    /\ conn' = IF InList(clients, c) THEN conn ELSE [conn EXCEPT ![c] = "dead"]
    /\ UNCHANGED <<variant, now, esp_data, clients, filters, loc, nmsgs, hist, fits, probe>>

\* finally: clients.remove(ws); the handler returns and the server closes
\* the connection.
FinRemove(c) ==
    /\ pc[c] \in {"fin", "finrm"}
    /\ IF InList(clients, c)
       THEN /\ clients' = ListRemove(clients, c)
            /\ loc' = loc
       ELSE /\ clients' = clients
            /\ loc' = [loc EXCEPT ![c].fin_raised = TRUE]
    /\ pc' = [pc EXCEPT ![c] = "ended"]
    /\ conn' = [conn EXCEPT ![c] = "dead"]
    /\ UNCHANGED <<variant, now, esp_data, filters, nmsgs, hist, fits, probe>>

\* One anchor connection, one browser watching: every message shape and
\* every spacing of the clock readings.
IngestConns == {"e1", "b1"}

NextIngest ==
    \/ \E c \in IngestConns : Connect(c)
    \/ \E t \in IngestConns, m \in Msgs, d \in 0..MaxTicks : Receive(t, m, d)
    \/ \E t \in IngestConns : StoreValue(t)
    \/ \E t \in IngestConns : StoreStamp(t)
    \/ \E t \in IngestConns : Gate(t)
    \/ \E t \in IngestConns : FilterStep(t)
    \/ \E t \in IngestConns : SolveStep(t)
    \/ \E t \in IngestConns : DegradedStep(t)
    \/ \E t \in IngestConns : Send(t)
    \/ \E t \in IngestConns : Return(t)

SpecIngest == Init /\ [][NextIngest]_vars

\* One anchor, three browsers that come, stall and go while it publishes.
PublishConns == {"e1", "b1", "b2", "b3"}
PublishMsgs == {m \in Msgs : DOMAIN m \in {{"rssi1"}, Keys} /\ \A k \in DOMAIN m : m[k] = -60}

NextPublish ==
    \/ \E c \in PublishConns : Connect(c)
    \/ \E c \in PublishConns : PeerClose(c)
    \/ \E c \in PublishConns : Stall(c)
    \/ \E c \in PublishConns : Resume(c)
    \/ \E t \in PublishConns, m \in PublishMsgs : Receive(t, m, 0)
    \/ \E t \in PublishConns : StoreValue(t)
    \/ \E t \in PublishConns : StoreStamp(t)
    \/ \E t \in PublishConns : Gate(t)
    \/ \E t \in PublishConns : FilterStep(t)
    \/ \E t \in PublishConns : SolveStep(t)
    \/ \E t \in PublishConns : DegradedStep(t)
    \/ \E t \in PublishConns : Send(t)
    \/ \E t \in PublishConns : Return(t)
    \/ \E t \in PublishConns : RemoveCheck(t)
    \/ \E t \in PublishConns : Remove(t)
    \/ \E c \in PublishConns : HandlerExit(c)
    \/ \E c \in PublishConns : FinCheck(c)
    \/ \E c \in PublishConns : FinRemove(c)

SpecPublish == Init /\ [][NextPublish]_vars

\* Two anchor connections whose handlers run at the same time.
RaceConns == {"e1", "e2", "b1"}
RaceMsgs == {m \in Msgs : \/ (DOMAIN m = {"rssi1"} /\ m["rssi1"] = -70)
                           \/ (DOMAIN m = Keys /\ m["rssi1"] = -60)}
RaceTicks == {0, SYNC_TIMEOUT}

NextRace ==
    \/ \E c \in RaceConns : Connect(c)
    \/ \E t \in RaceConns, m \in RaceMsgs, d \in RaceTicks :
           nmsgs < MaxRaceMsgs /\ Receive(t, m, d)
    \/ \E t \in RaceConns : StoreValue(t)
    \/ \E t \in RaceConns : StoreStamp(t)
    \/ \E t \in RaceConns : Gate(t)
    \/ \E t \in RaceConns : FilterStep(t)
    \/ \E t \in RaceConns : SolveStep(t)
    \/ \E t \in RaceConns : DegradedStep(t)
    \/ \E t \in RaceConns : Send(t)
    \/ \E t \in RaceConns : Return(t)

SpecRace == Init /\ [][NextRace]_vars

\* One anchor publishing to two browsers, one of which may stop reading.
\* A handler thread whose send can return or raise is scheduled sooner or
\* later; a peer owes nothing: it need not read, close or send.
StallConns == {"e1", "b1", "b2"}

HandlerStep(t) ==
    \/ StoreValue(t)
    \/ StoreStamp(t)
    \/ Gate(t)
    \/ FilterStep(t)
    \/ SolveStep(t)
    \/ DegradedStep(t)
    \/ Send(t)
    \/ RemoveCheck(t)
    \/ Remove(t)
    \/ Return(t)

NextStall ==
    \/ \E c \in StallConns : Connect(c)
    \/ \E c \in StallConns : PeerClose(c)
    \/ \E c \in StallConns : Stall(c)
    \/ \E t \in StallConns, m \in PublishMsgs : Receive(t, m, 0)
    \/ \E t \in StallConns : HandlerStep(t)

SpecStall ==
    Init /\ [][NextStall]_vars /\ \A t \in Esps : WF_vars(Send(t))

---------------------------------------------------------------------------
(* Messages with any JSON value *)

\* A value json.loads can return for a key: a number, a string that is no
\* number ("abc"), or null.
JNumber(q) == [kind |-> "number", num |-> q]
JString == [kind |-> "string", num |-> QInt(0)]
JNull == [kind |-> "null", num |-> QInt(0)]

\* float(data[key]): the float, or ValueError for a string that is no
\* number, TypeError for None.
FloatJson(v) ==
    [value |-> v.num,
     raised |-> CASE v.kind = "number" -> "none"
                  [] v.kind = "string" -> "ValueError"
                  [] v.kind = "null" -> "TypeError"]

\* Readings: -70 and -60.125, which has more than two decimals.
JsonNums == {QInt(-70), Q(-481, 8)}
JsonBad == {JString, JNull}

JsonMsgs ==
    {[k \in {"rssi1"} |-> JNumber(q)] : q \in JsonNums}
    \cup {[k \in {"rssi1"} |-> v] : v \in JsonBad}
    \cup {[k \in Keys |-> JNumber(q)] : q \in JsonNums}
    \cup {[rssi1 |-> JNumber(q), rssi2 |-> v] : q \in JsonNums, v \in JsonBad}

\* esp_data[key]["value"].append(float(data[key])): an exception of float
\* leaves handle_rssi_data before the append and ends the receive loop of
\* the endpoint (except Exception; finally).
StoreJson(t) ==
    /\ pc[t] = "store"
    /\ LET key == KeySeq[loc[t].k]
           f == FloatJson(loc[t].data[key])
       IN  IF f.raised = "none"
           THEN /\ esp_data' = [esp_data EXCEPT ![key].value = Append(@, f.value)]
                /\ pc' = [pc EXCEPT ![t] = "stamp"]
                /\ loc' = loc
                /\ conn' = conn
           ELSE /\ esp_data' = esp_data
                /\ pc' = [pc EXCEPT ![t] = Finally(variant, t)]
                /\ loc' = [loc EXCEPT ![t].raised = TRUE]
                /\ conn' = IF Finally(variant, t) = "ended"
                           THEN [conn EXCEPT ![t] = "dead"] ELSE conn
    /\ UNCHANGED <<variant, now, clients, filters, nmsgs, hist, fits, probe>>

\* One anchor connection and one browser; well-formed and malformed
\* messages, at once or a sync timeout apart.
ParseConns == {"e1", "b1"}
ParseTicks == {0, SYNC_TIMEOUT}

NextParse ==
    \/ \E c \in ParseConns : Connect(c)
    \/ \E t \in ParseConns, m \in JsonMsgs, d \in ParseTicks : Receive(t, m, d)
    \/ \E t \in ParseConns : StoreJson(t)
    \/ \E t \in ParseConns : StoreStamp(t)
    \/ \E t \in ParseConns : Gate(t)
    \/ \E t \in ParseConns : FilterStep(t)
    \/ \E t \in ParseConns : SolveStep(t)
    \/ \E t \in ParseConns : DegradedStep(t)
    \/ \E t \in ParseConns : Send(t)
    \/ \E t \in ParseConns : Return(t)
    \/ \E c \in ParseConns : FinRemove(c)

SpecParse == Init /\ [][NextParse]_vars

---------------------------------------------------------------------------
(* Functions and objects exercised on their own *)

\* The server's state while one of its functions is exercised on its own.
ServerIdle(v) ==
    /\ variant = v
    /\ now = Epoch
    /\ esp_data = InitEspData
    /\ clients = <<>>
    /\ filters = InitFilters
    /\ conn = [c \in Conns |-> "none"]
    /\ pc = [c \in Conns |-> "off"]
    /\ loc = [c \in Conns |-> NoEvent]
    /\ nmsgs = 0
    /\ hist = InitHist
    /\ fits = 0

server == <<variant, now, esp_data, clients, filters, conn, pc, loc, nmsgs,
            hist, fits>>

\* MovingAverageFilter(window_size): self.window = []
WindowSizes == {1, 2, 3, MA_WINDOW}

InitMovingAverage ==
    /\ ServerIdle("filter_distance")
    /\ \E ws \in WindowSizes :
           probe = [fn |-> "MovingAverageFilter", window_size |-> ws,
                    window |-> <<>>, fed |-> <<>>, out |-> <<>>]

\* MovingAverageFilter.update(value)
MAUpdate(value) ==
    /\ probe.fn = "MovingAverageFilter"
    /\ Len(probe.fed) < MaxUpdates
    /\ LET w == WindowPush(probe.window, probe.window_size, Float(value))
       IN  probe' = [probe EXCEPT !.window = w,
                                  !.fed = Append(@, Float(value)),
                                  !.out = <<Mean(w)>>]
    /\ UNCHANGED server

NextMovingAverage == \E value \in RssiVals : MAUpdate(value)

SpecMovingAverage == InitMovingAverage /\ [][NextMovingAverage]_vars

\* The filters of filter_distance.py and app_plot_3.py, one object at a
\* time, in floating point.  An update gives the object it leaves behind,
\* the value it returned and the exception it raised.
Returned(self, value) == [self |-> self, out |-> <<value>>, raised |-> "none"]
Raises(self, exc) == [self |-> self, out |-> <<>>, raised |-> exc]

\* sum(self.window): ((0 + w[1]) + w[2]) + ...
RECURSIVE FSum(_)
FSum(w) ==
    IF w = <<>> THEN QInt(0)
    ELSE FAdd(FSum(SubSeq(w, 1, Len(w) - 1)), w[Len(w)])

\* sum(self.window) / len(self.window) with one too many for the length.
FMean_long(window) == FDiv(FSum(window), QInt(Len(window) + 1))

\* sum(self.window) / len(self.window)
FMean(window) == FDiv(FSum(window), QInt(Len(window)))

\* MovingAverageFilter.update(value)
MovingAverageFilter_update(self, value) ==
    LET window == WindowPush(self.window, self.window_size, value)
        s == [self EXCEPT !.window = window]
    IN  IF window = <<>> THEN Raises(s, "ZeroDivisionError")
        ELSE Returned(s, FMean(window))

\* statistics.median with the upper of the two middle values of an even
\* number of values.
median_high(data) ==
    LET s == sorted(data)
    IN  s[Len(s) \div 2 + 1]

\* statistics.median(data), data not empty
median(data) ==
    LET s == sorted(data)
        n == Len(s)
    IN  IF n % 2 = 1 THEN s[(n + 1) \div 2]
        ELSE FDiv(FAdd(s[n \div 2], s[n \div 2 + 1]), QInt(2))

\* MedianFilter.update(value)
MedianFilter_update(self, value) ==
    LET window == WindowPush(self.window, self.window_size, value)
        s == [self EXCEPT !.window = window]
    IN  IF window = <<>> THEN Raises(s, "StatisticsError")
        ELSE Returned(s, median(window))

\* self.alpha * value + (1 - self.alpha) * self.last giving self.last.
Blend_stuck(alpha, value, last) == last

\* self.alpha * value + (1 - self.alpha) * self.last with value and last
\* exchanged.
Blend_swapped(alpha, value, last) ==
    FAdd(FMul(alpha, last), FMul(FSub(QInt(1), alpha), value))

\* self.alpha * value + (1 - self.alpha) * self.last
Blend(alpha, value, last) ==
    FAdd(FMul(alpha, value), FMul(FSub(QInt(1), alpha), last))

\* ExponentialSmoother.update(value); self.last is <<>> for None.
ExponentialSmoother_update(self, value) ==
    LET last == IF self.last = <<>> THEN value
                ELSE Blend(self.alpha, value, self.last[1])
    IN  Returned([self EXCEPT !.last = <<last>>], last)

\* Window sizes and smoothing factors: the ones the repository configures
\* (5, and 0.25, 0.2 and the default 0.3) and others the constructors
\* accept.
FilterWindowSizes == {0, 1, 2, 3, 4, MA_WINDOW}
Alphas == {fl(SMOOTH_ALPHA), fl(COORD_ALPHA), fl(Q(3, 10)), QInt(1)}

\* The readings fed: the floats nearest to -68, -52 and 0.1.
FloatVals == {fl(QInt(-68)), fl(QInt(-52)), fl(Q(1, 10))}

NewFilters ==
    {[kind |-> kind, window_size |-> ws, window |-> <<>>] :
        kind \in {"MovingAverageFilter", "MedianFilter"},
        ws \in FilterWindowSizes}
    \cup {[kind |-> "ExponentialSmoother", alpha |-> alpha, last |-> <<>>] :
             alpha \in Alphas}

InitFilter ==
    /\ ServerIdle("filter_distance")
    /\ \E self \in NewFilters :
           probe = [fn |-> "filter", self |-> self, before |-> self,
                    fed |-> <<>>, out |-> <<>>, raised |-> "none"]

\* self.update(value)
update(self, value) ==
    CASE self.kind = "MovingAverageFilter" ->
             MovingAverageFilter_update(self, value)
      [] self.kind = "MedianFilter" -> MedianFilter_update(self, value)
      [] self.kind = "ExponentialSmoother" ->
             ExponentialSmoother_update(self, value)

FilterUpdate(value) ==
    /\ probe.fn = "filter"
    /\ Len(probe.fed) < MaxFeeds
    /\ LET r == update(probe.self, value)
       IN  probe' = [probe EXCEPT !.self = r.self, !.before = probe.self,
                                  !.fed = Append(@, value),
                                  !.out = r.out, !.raised = r.raised]
    /\ UNCHANGED server

NextFilter == \E value \in FloatVals : FilterUpdate(value)

SpecFilter == InitFilter /\ [][NextFilter]_vars

\* The calibration, one call at a time.
MaxPairs == 3

\* All lists of at most n elements of S.
ListsUpTo(S, n) == UNION {[1..m -> S] : m \in 0..n}

\* The shape numpy gives func(xdata, *p) - ydata for one-dimensional
\* arrays of lengths a and b: equal lengths, or one of them 1 and
\* stretched to the other; -1 when the shapes cannot be broadcast.
Broadcast(a, b) ==
    IF a = b THEN a
    ELSE IF a = 1 THEN b
    ELSE IF b = 1 THEN a
    ELSE -1

\* np.log10(d) is finite for d > 0, -inf for 0 and nan below 0 (a
\* RuntimeWarning, no exception).
FiniteLog(distances) == \A i \in 1..Len(distances) : distances[i] > 0

\* popt, _ = curve_fit(path_loss_model, distances, rssi_values,
\*                     p0=(-59, 2)); return popt
\* The outcomes of the call: a model returned, or the exception that
\* leaves curve_fit.  Nothing is checked before curve_fit, and curve_fit
\* checks what least squares needs: ydata not empty, no more parameters
\* (2) than residuals, residuals of one shape.  Residuals that are not
\* finite leave the optimiser with its starting point or with a
\* RuntimeError, depending on where it stops.
calibrate_path_loss(distances, rssi_values) ==
    LET m == Broadcast(Len(distances), Len(rssi_values))
        popt == Term("curve_fit", <<distances, rssi_values>>)
        p0 == <<-59, 2>>
    IN  IF Len(rssi_values) = 0 THEN {Raises(<<>>, "ValueError")}
        ELSE IF Len(rssi_values) # 1 /\ Len(p0) > Len(rssi_values)
        THEN {Raises(<<>>, "TypeError")}
        ELSE IF m = -1 THEN {Raises(<<>>, "ValueError")}
        ELSE IF Len(p0) > m THEN {Raises(<<>>, "TypeError")}
        ELSE IF ~FiniteLog(distances)
        THEN {Returned(<<>>, p0), Raises(<<>>, "RuntimeError")}
        ELSE {Returned(<<>>, popt)}

CalibDistances == {-1, 0, 1, 2}
CalibRssi == {-59, -65}

InitCalibrate ==
    /\ ServerIdle("filter_distance")
    /\ \E ds \in ListsUpTo(CalibDistances, MaxPairs),
          rs \in ListsUpTo(CalibRssi, MaxPairs) :
           probe = [fn |-> "calibrate_path_loss", distances |-> ds,
                    rssi_values |-> rs, called |-> FALSE,
                    out |-> <<>>, raised |-> "none"]

\* A, n = calibrate_path_loss(calib_distances, calib_rssi)
Calibrate ==
    /\ probe.fn = "calibrate_path_loss"
    /\ ~probe.called
    /\ \E res \in calibrate_path_loss(probe.distances, probe.rssi_values) :
           probe' = [probe EXCEPT !.called = TRUE, !.out = res.out,
                                  !.raised = res.raised]
    /\ fits' = fits + 1
    /\ UNCHANGED <<variant, now, esp_data, clients, filters, conn, pc, loc,
                   nmsgs, hist>>

NextCalibrate == Calibrate

SpecCalibrate == InitCalibrate /\ [][NextCalibrate]_vars

\* The path-loss model and its inverse, in floating point.  A distance is
\* kept by its decimal logarithm: Pow10(e) is the distance 10^e, np.log10
\* returns the float nearest to e, and 10 ** y is the distance 10^y.
Pow10(e) == [pow10 |-> e]
log10(d) == fl(d.pow10)

\* return A - 10 * n * np.log10(d)
path_loss_model(d, A, n) == FSub(A, FMul(FMul(QInt(10), n), log10(d)))

\* The inverse with the operands of the subtraction exchanged.
rssi_to_distance_swapped(rssi_filtered, A, n) ==
    Pow10(FDiv(FSub(rssi_filtered, A), FMul(QInt(10), n)))

\* filter_distance.py: return 10 ** ((A - rssi_filtered) / (10 * n))
rssi_to_distance_A_n(rssi_filtered, A, n) ==
    Pow10(FDiv(FSub(A, rssi_filtered), FMul(QInt(10), n)))

\* Calibrated parameters near the fit of the table ((-59, 2) is the
\* starting point), and exponents far from it; distances from 0.1 to 100.
ModelAs == {fl(QInt(-59)), fl(QInt(-40))}
ModelNs == {QInt(2), fl(Q(11, 5)), QInt(-2), Q(1, 64)}
ModelDistances ==
    {Pow10(e) : e \in {QInt(-1), QInt(0), Q(1, 2), QInt(1), Q(13, 10),
                       Q(3, 2), QInt(2)}}

InitInverse ==
    /\ ServerIdle("filter_distance")
    /\ \E A \in ModelAs, n \in ModelNs, d \in ModelDistances :
           probe = [fn |-> "inverse", A |-> A, n |-> n, d |-> d,
                    rssi |-> <<>>, back |-> <<>>]

\* rssi = path_loss_model(d, A, n)
ToRssi ==
    /\ probe.fn = "inverse"
    /\ probe.rssi = <<>>
    /\ probe' = [probe EXCEPT
                    !.rssi = <<path_loss_model(probe.d, probe.A, probe.n)>>]
    /\ UNCHANGED server

\* distance = rssi_to_distance(rssi, A, n)
ToDistance ==
    /\ probe.fn = "inverse"
    /\ probe.rssi # <<>>
    /\ probe.back = <<>>
    /\ probe' = [probe EXCEPT
                    !.back = <<rssi_to_distance_A_n(probe.rssi[1], probe.A,
                                                    probe.n)>>]
    /\ UNCHANGED server

NextInverse == ToRssi \/ ToDistance

SpecInverse == InitInverse /\ [][NextInverse]_vars

\* The HTTP servers, app.py and rssitocoord.py: POST /rssi stores samples,
\* GET / evaluates the gate and renders the page, one request at a time.
\* app.py keeps a list of samples per anchor; rssitocoord.py keeps the last
\* sample only, <<>> for None and <<v>> for the float v.
MaxRequests == 4

HttpVariants == {"app", "rssitocoord"}
HttpTicks == {0, SYNC_TIMEOUT}

\* rssi_filter = MovingAverageFilter(window_size=5) of rssitocoord.py
RSSI_FILTER_WINDOW == 5

NoResponse ==
    [route |-> "none", status |-> 0, updated_keys |-> <<>>,
     raised |-> "none", synced |-> FALSE, page |-> <<>>]

InitHttp ==
    /\ \E v \in HttpVariants : ServerIdle(v)
    /\ probe = [fn |-> "http", requests |-> 0, rssi_filter |-> <<>>,
                rows |-> <<>>, response |-> NoResponse]

\* One turn of `for key in ["rssi1", "rssi2", "rssi3"]` in update_data:
\* try: store float(data[key]), stamp, updated_keys.append(key)
\* except ValueError: pass.  Any other exception leaves the view.
StoreKey(v, st, key, data, current_time) ==
    IF st.raised # "none" \/ key \notin DOMAIN data THEN st
    ELSE LET f == FloatJson(data[key])
         IN  CASE f.raised = "none" ->
                     [st EXCEPT
                         !.data[key] =
                             [value |-> IF v = "app"
                                        THEN Append(@.value, f.value)
                                        ELSE <<f.value>>,
                              timestamp |-> current_time],
                         !.updated_keys = Append(@, key)]
               [] f.raised = "ValueError" -> st
               [] OTHER -> [st EXCEPT !.raised = f.raised]

\* POST /rssi: update_data()
update_data(data, d) ==
    /\ probe.fn = "http"
    /\ probe.requests < MaxRequests
    /\ now' = now + d
    /\ LET current_time == now'
           s0 == [data |-> esp_data, updated_keys |-> <<>>, raised |-> "none"]
           s1 == StoreKey(variant, s0, "rssi1", data, current_time)
           s2 == StoreKey(variant, s1, "rssi2", data, current_time)
           s3 == StoreKey(variant, s2, "rssi3", data, current_time)
       IN  /\ esp_data' = s3.data
           /\ probe' = [probe EXCEPT
                  !.requests = @ + 1,
                  !.response =
                      [NoResponse EXCEPT
                          !.route = "POST /rssi",
                          !.status = IF s3.raised # "none" THEN 500
                                     ELSE IF s3.updated_keys # <<>> THEN 200
                                     ELSE 400,
                          !.updated_keys = s3.updated_keys,
                          !.raised = s3.raised]]
    /\ UNCHANGED <<variant, clients, filters, conn, pc, loc, nmsgs, hist, fits>>

\* The page of app.py in sync: one MovingAverageFilter() made here and fed
\* r1, r2, r3 in turn, the three conversions and the closed form.
AppPage(r) ==
    LET filt == FilterStage("appws", filters, r).filt
        x == rssi_to_distance(filt["rssi1"])
        y == rssi_to_distance(filt["rssi2"])
        z == rssi_to_distance(filt["rssi3"])
        pos == closed_form_position(x, y, z)
    IN  [r |-> r, filtered |-> filt, x |-> x, y |-> y, z |-> z,
         l |-> pos.l, m |-> pos.m]

\* rssitocoord.py in sync: the shared rssi_filter is fed raw_rssi1,
\* raw_rssi2, raw_rssi3 in turn, and each mean is rounded for the CSV row.
CsvFeed(window, r) ==
    LET w1 == WindowPush(window, RSSI_FILTER_WINDOW, r["rssi1"])
        w2 == WindowPush(w1, RSSI_FILTER_WINDOW, r["rssi2"])
        w3 == WindowPush(w2, RSSI_FILTER_WINDOW, r["rssi3"])
    IN  [window |-> w3,
         filtered |-> [rssi1 |-> Round2(Mean(w1)), rssi2 |-> Round2(Mean(w2)),
                       rssi3 |-> Round2(Mean(w3))]]

\* GET /: index()
index(d) ==
    /\ probe.fn = "http"
    /\ probe.requests < MaxRequests
    /\ now' = now + d
    /\ LET current_time == now'
           synced == AllFresh(esp_data, current_time)
           r == LastValues(esp_data)
           feed == CsvFeed(probe.rssi_filter, r)
           page == CASE ~synced -> [r |-> LastOrNone(esp_data)]
                     [] variant = "app" -> AppPage(r)
                     [] OTHER -> [r |-> r, filtered |-> feed.filtered]
       IN  /\ probe' = [probe EXCEPT
                  !.requests = @ + 1,
                  !.rssi_filter = IF synced /\ variant = "rssitocoord"
                                  THEN feed.window ELSE @,
                  !.rows = IF synced /\ variant = "rssitocoord"
                           THEN Append(@, feed.filtered) ELSE @,
                  !.response =
                      [NoResponse EXCEPT !.route = "GET /", !.status = 200,
                                         !.synced = synced, !.page = page]]
           /\ fits' = IF synced /\ variant = "app"
                      THEN fits + FitsOf(Len(KeySeq)) ELSE fits
    /\ UNCHANGED <<variant, esp_data, clients, filters, conn, pc, loc, nmsgs,
                   hist>>

NextHttp ==
    \/ \E data \in JsonMsgs, d \in HttpTicks : update_data(data, d)
    \/ \E d \in HttpTicks : index(d)

SpecHttp == InitHttp /\ [][NextHttp]_vars

\* The position solver, one call at a time.
Ready == [fn |-> "ready"]

InitSolver ==
    /\ \E v \in {"app_plot_2", "app_plot_3"} : ServerIdle(v)
    /\ probe = Ready

\* Distances: 1 cm, 40 cm, 1 m, 1.7 m, and the float that is no number.
DistVals == {Dist(1, 1), Dist(1, 1600), Dist(1, 10000), Dist(1, 28900), NaN}

\* Rooms D1 x D2: a square metre, and the ones whose receivers coincide or
\* lie on one line.
Rooms == {<<100, 100>>, <<0, 100>>, <<100, 0>>, <<0, 0>>}

\* Points whose exact distances to the receivers are handed to the solver.
ExactRooms == {<<500, 400>>, <<100, 100>>, <<40, 30>>}
TruePoints == {<<200, 150>>, <<50, 50>>, <<20, 70>>, <<0, 0>>, <<35, 10>>,
               <<-20, -20>>, <<120, 60>>}

\* The exact distance from point p to receiver a.
ExactDist(p, a) ==
    Dist(1, (p[1] - a[1]) * (p[1] - a[1]) + (p[2] - a[2]) * (p[2] - a[2]))

ExactDists(room, p) ==
    [j \in 1..3 |-> ExactDist(p, Receivers(room[1], room[2])[j])]

EstimateCalls ==
    {[room |-> room, r |-> <<r1, r2, r3>>] :
        room \in Rooms, r1 \in DistVals, r2 \in DistVals, r3 \in DistVals}
    \cup {[room |-> room, r |-> ExactDists(room, p)] :
             room \in ExactRooms, p \in TruePoints}

\* r = estimate_position_from_rssi(r1, r2, r3, D1, D2)
CallEstimate(c) ==
    /\ probe = Ready
    /\ probe' = [fn |-> "estimate_position_from_rssi",
                 room |-> c.room, r |-> c.r,
                 out |-> estimate_position(variant, c.r[1], c.r[2], c.r[3],
                                           c.room[1], c.room[2])]
    /\ UNCHANGED server

\* Receiver lists of 2 and 3, distance lists of 2, 3 and 4, and the exact
\* distances from the points to the receivers of each list of 3.
ReceiverLists ==
    {<<<<0, 0>>, <<100, 0>>>>,
     <<<<0, 0>>, <<100, 0>>, <<0, 100>>>>,
     <<<<10, 20>>, <<90, 40>>, <<30, 80>>>>,
     <<<<0, 0>>, <<100, 0>>, <<200, 0>>>>,
     <<<<0, 0>>, <<0, 0>>, <<0, 100>>>>}

DistanceLists ==
    UNION {[1..n -> {Dist(1, 1600), Dist(1, 10000)}] : n \in 2..4}
    \cup {[j \in 1..3 |-> ExactDist(p, positions[j])] :
             p \in TruePoints,
             positions \in {l \in ReceiverLists : Len(l) = 3}}

\* multilateration_least_squares(positions, distances)
CallMultilateration(positions, distances) ==
    /\ probe = Ready
    /\ probe' = [fn |-> "multilateration_least_squares",
                 positions |-> positions, distances |-> distances,
                 out |-> multilateration_least_squares(positions, distances)]
    /\ UNCHANGED server

\* sanitize_distances(distances, room_diag), room_diag given by its square
SanitizeVals ==
    DistVals \cup {Inf, Dist(-1, 100), Dist(1, 25), Dist(1, 28800)}
DiagSquares == {20000, 10000, 0}

CallSanitize(distances, diag_sq) ==
    /\ probe = Ready
    /\ probe' = [fn |-> "sanitize_distances",
                 distances |-> distances, diag_sq |-> diag_sq,
                 out |-> sanitize_distances(distances, diag_sq, MIN_D)]
    /\ UNCHANGED server

\* coarse_grid_search(positions, distances, room_bounds, grid_res)
GridBounds == {<<-10, 30, -10, 30>>, <<0, 20, 0, 0>>}
GridSteps == {GRID_RES, 10}
GridReceivers == {Receivers(20, 20), Receivers(0, 20), Receivers(0, 0)}
GridDists == {Dist(1, 25), Dist(1, 400), NaN}

CallGridSearch(positions, distances, room_bounds, grid_res) ==
    /\ probe = Ready
    /\ probe' = [fn |-> "coarse_grid_search",
                 positions |-> positions, distances |-> distances,
                 room_bounds |-> room_bounds, grid_res |-> grid_res,
                 out |-> coarse_grid_search(positions, distances,
                                            room_bounds, grid_res)]
    /\ UNCHANGED server

\* The caller is done with the result.
CallDone ==
    /\ probe # Ready
    /\ probe' = Ready
    /\ UNCHANGED server

NextSolver ==
    \/ \E c \in EstimateCalls : CallEstimate(c)
    \/ \E positions \in ReceiverLists, distances \in DistanceLists :
           CallMultilateration(positions, distances)
    \/ \E distances \in [1..3 -> SanitizeVals], diag_sq \in DiagSquares :
           CallSanitize(distances, diag_sq)
    \/ \E positions \in GridReceivers, distances \in [1..3 -> GridDists],
          room_bounds \in GridBounds, grid_res \in GridSteps :
           CallGridSearch(positions, distances, room_bounds, grid_res)
    \/ CallDone

SpecSolver == InitSolver /\ [][NextSolver]_vars

---------------------------------------------------------------------------
(* Properties *)

\* An anchor state a is Fresh at time t: it holds a sample less than the
\* sync timeout old.
Fresh(a, t) == a.value # <<>> /\ t - a.timestamp < SYNC_TIMEOUT

\* The handler's event is over: handle_rssi_data returned or raised.
EventOver(t) == pc[t] = "ret" \/ loc[t].raised

RawFields == {"rssi1", "rssi2", "rssi3"}
SyncedFields == RawFields \cup {"x", "y", "z", "l", "m"}

\* C1 (sync gating): an event whose evaluation saw an anchor that never
\* reported, or whose last update was SYNC_TIMEOUT or more old, runs no
\* filter update, no RSSI-to-distance conversion and no position solve.
C1_SyncGating ==
    \A t \in Conns :
        (loc[t].gate # "none"
            /\ \E k \in Keys : ~Fresh(loc[t].seen[k], loc[t].ct))
        => loc[t].stages \cap {"filter", "convert", "solve"} = {}

\* An event ended with anchors 1 and 2 fresh and anchor 3 three seconds old.
C1_Witness ==
    \E t \in Conns :
        /\ pc[t] = "ret"
        /\ Fresh(loc[t].seen["rssi1"], loc[t].ct)
        /\ Fresh(loc[t].seen["rssi2"], loc[t].ct)
        /\ loc[t].seen["rssi3"].value # <<>>
        /\ loc[t].ct - loc[t].seen["rssi3"].timestamp = 3
        /\ loc[t].stages \cap {"filter", "convert", "solve"} = {}

\* C2 (degraded emission): every event whose evaluation did not find all
\* anchors fresh publishes a payload that holds the raw readings only.
C2_DegradedEmission ==
    \A t \in Conns :
        (pc[t] = "ret" /\ loc[t].gate = "stale")
        => /\ "publish" \in loc[t].stages
           /\ DOMAIN loc[t].payload = RawFields

Published(t) == "publish" \in loc[t].stages

\* C4 (broadcast resilience, delivery): once an event is over, a failed send
\* in its publish has kept no other subscriber of the set it started with
\* from getting its delivery attempt.
C4_Delivery ==
    \A t \in Conns :
        (EventOver(t) /\ Published(t))
        => \A c \in loc[t].failed :
               \A o \in Browsers \ {c} :
                   InList(loc[t].snap, o) => InList(loc[t].tried, o)

\* C5 (self-healing membership): when the publish returns, every subscriber
\* whose send failed during it is absent from the subscriber list.
C5_SelfHealing ==
    \A t \in Conns :
        (pc[t] = "ret" /\ Published(t))
        => \A c \in loc[t].failed : ~InList(clients, c)

\* An event is inside its compute-and-broadcast: past the gate with all
\* anchors fresh, and not yet back in the receive loop.
InCompute(t) ==
    /\ loc[t].gate = "fresh"
    /\ pc[t] \in {"filter", "solve", "send", "rmchk", "rm"}

\* C6 (single writer): at most one compute-and-broadcast is in progress.
C6_SingleWriter ==
    \A s, t \in Conns : (InCompute(s) /\ InCompute(t)) => s = t

\* C7 (snapshot iteration): once an event is over, the send attempts of its
\* publish are exactly the subscribers present when the publish started,
\* each once and in order.
C7_SnapshotIteration ==
    \A t \in Conns :
        (EventOver(t) /\ Published(t)) => loc[t].tried = loc[t].snap

\* C8 (no propagation): no exception leaves the publish loop of
\* handle_rssi_data, whatever sends fail and whoever removes the subscriber.
C8_NoPropagation ==
    \A t \in Conns : ~loc[t].raised

\* C10 (no indefinite blocking): a publish that is sending to a subscriber
\* gets past that send, by delivery, failure or timeout.
C10_SendTerminates ==
    \A t \in Esps : (pc[t] = "send") ~> (pc[t] # "send")

\* The filter objects with the state of every anchor but i as at start-up.
OthersReset(f, i) ==
    [f EXCEPT !.ma = [k \in Keys |-> IF k = i THEN f.ma[k] ELSE <<>>],
              !.smooth = [k \in Keys |-> IF k = i THEN f.smooth[k] ELSE <<>>]]

\* C11 (per-anchor filter independence): the filtered value the filter
\* stage is about to compute for anchor i, and the state it leaves in i's
\* filter, are the same whatever the other anchors' readings and filter
\* states are.
C11_FilterIndependence ==
    \A t \in Conns :
        pc[t] = "filter"
        => LET r == LastValues(esp_data)
               st == FilterStage(variant, filters, r)
           IN  \A i \in Keys :
                   \A r2 \in [Keys -> {Float(v) : v \in RssiVals}] :
                       r2[i] = r[i]
                       => LET st2 == FilterStage(variant,
                                                 OthersReset(filters, i), r2)
                          IN  /\ st2.filt[i] = st.filt[i]
                              /\ st2.filters.ma[i] = st.filters.ma[i]
                              /\ st2.filters.smooth[i] = st.filters.smooth[i]

\* The size of the window of the filter each variant applies to a reading.
WindowSize(v) ==
    CASE v \in {"appws", "appplot"} -> MA_WINDOW
      [] v = "app_plot_2" -> MEDIAN_WINDOW_2
      [] v = "app_plot_3" -> MEDIAN_WINDOW_3

Min(a, b) == IF a < b THEN a ELSE b

\* The last n elements of s.
LastN(s, n) == SubSeq(s, Len(s) - n + 1, Len(s))

\* C12 (filter state persists): the window an anchor's filtered value was
\* computed over holds the last min(k, window size) readings of that anchor
\* that went through the filter stage, k being the number of sync-satisfied
\* events so far.
C12_FilterPersists ==
    \A t \in Conns :
        "filter" \in loc[t].stages
        => \A k \in Keys :
               loc[t].win[k]
                   = LastN(hist[k], Min(Len(hist[k]), WindowSize(variant)))

\* The sum of the first n elements of s.
RECURSIVE SumFirst(_, _)
SumFirst(s, n) == IF n = 0 THEN QInt(0) ELSE QAdd(SumFirst(s, n - 1), s[n])

\* C20 (moving average): after m >= 1 updates the window is the last
\* min(m, window_size) values fed, in arrival order; update returned their
\* sum divided by their number; the first update returned the sample.
C20_MovingAverage ==
    (probe.fn = "MovingAverageFilter" /\ probe.fed # <<>>)
    => LET m == Len(probe.fed)
           n == Min(m, probe.window_size)
           last == LastN(probe.fed, n)
       IN  /\ probe.window = last
           /\ QMul(probe.out[1], QInt(n)) = SumFirst(last, n)
           /\ m = 1 => probe.out[1] = probe.fed[1]

\* A window of 3 that has evicted two values unlike the ones it holds.
C20_Witness ==
    /\ probe.fn = "MovingAverageFilter"
    /\ probe.window_size = 3
    /\ Len(probe.fed) = 5
    /\ probe.fed[1] = Float(-70) /\ probe.fed[2] = Float(-70)
    /\ probe.window = <<Float(-60), Float(-60), Float(-70)>>
    /\ probe.out = <<Q(-190, 3)>>

\* The result of the call of estimate_position_from_rssi under way.
Estimated == probe.fn = "estimate_position_from_rssi"

\* x is a finite number.
Finite(x) == x.kind = "num"

\* C13 (success means linear): a result with success = true is the linear
\* least-squares solution, of rank >= 2, with no NaN or infinity in it, and
\* its residual norm is at most max(0.5, 0.1 * room diagonal).
C13_SuccessMeansLinear ==
    (Estimated /\ probe.out.success)
    => LET out == probe.out
       IN  /\ out.lin.err = "none" /\ out.lin.success
           /\ out.px = out.lin.px /\ out.py = out.lin.py
           /\ out.resid = out.lin.resid_norm
           /\ Finite(out.px) /\ Finite(out.py) /\ Finite(out.resid)
           /\ out.resid.mm <= ResidLimit(probe.room[1], probe.room[2])

\* C14 (fallback on rejection): when the linear solution is rejected (rank
\* below 2, NaN, or residual over the threshold) the result is the grid
\* search's minimizer with success = false, never the rejected linear one.
C14_FallbackOnRejection ==
    (Estimated /\ probe.out.rejected)
    => LET out == probe.out
       IN  /\ ~out.success
           /\ out.grid # <<>>
           /\ out.px = out.grid[1].px /\ out.py = out.grid[1].py
           /\ out.resid = out.grid[1].resid

\* The receivers of the room lie on one line or coincide.
Collinear(room) == room[1] = 0 \/ room[2] = 0

\* v lies in [lo, hi].
Within(v, lo, hi) == ~QLess(v, QInt(lo)) /\ ~QLess(QInt(hi), v)

\* C15 (degenerate input): with collinear or coinciding receivers (rank
\* below 2) and any positive distances, the estimate raises nothing and is
\* a finite point with success = false inside the room widened by the
\* margin.
C15_DegenerateFallback ==
    (/\ Estimated
     /\ Collinear(probe.room)
     /\ \A j \in 1..3 : probe.r[j].kind = "num" /\ probe.r[j].sgn = 1)
    => LET out == probe.out
           bounds == RoomBounds(probe.room[1], probe.room[2])
       IN  /\ out.lin.err = "none"
           /\ ~out.lin.success
           /\ ~out.success
           /\ Finite(out.px) /\ Finite(out.py)
           /\ Within([n |-> out.px.n, d |-> out.px.d], bounds[1], bounds[2])
           /\ Within([n |-> out.py.n, d |-> out.py.d], bounds[3], bounds[4])

\* Receivers on the line y = 0, and three coinciding receivers, each with
\* the grid search's point returned.
C15_Witness ==
    /\ Estimated
    /\ probe.room \in {<<100, 0>>, <<0, 0>>}
    /\ probe.r = <<Dist(1, 10000), Dist(1, 1), Dist(1, 10000)>>
    /\ ~probe.out.success
    /\ probe.out.grid # <<>>
    /\ Finite(probe.out.px) /\ Finite(probe.out.py)

\* The call of multilateration_least_squares under way.
Multilaterated == probe.fn = "multilateration_least_squares"

\* C16 (input validation): fewer than 3 receivers, or a distance list whose
\* length differs from the receiver list's, is rejected with the error for
\* the receiver count before anything is computed; well-formed input raises
\* nothing.
C16_InputValidation ==
    Multilaterated
    => LET malformed == \/ Len(probe.positions) < 3
                        \/ Len(probe.distances) # Len(probe.positions)
       IN  IF malformed
           THEN /\ probe.out.err = "ValueError: Need at least 3 receivers"
                /\ ~probe.out.computed
           ELSE probe.out.err = "none"

\* The call of sanitize_distances under way.
Sanitized == probe.fn = "sanitize_distances"

\* d lies in [min_d, 1.2 * room diagonal], the diagonal given by its square.
InRange(d, diag_sq) ==
    /\ d.kind = "num" /\ d.sgn = 1
    /\ MIN_D * MIN_D <= d.sq
    /\ 100 * d.sq <= 144 * diag_sq

\* C17 (distance sanitization): every distance handed to the linear solve
\* and to the grid search lies in [0.05, 1.2 * room diagonal]; sanitization
\* leaves a distance in that range as it is, maps one below it to the
\* minimum and one above it to the maximum, and is idempotent.
C17_Sanitization ==
    /\ (Estimated /\ ~Collinear(probe.room))
       => \A j \in 1..3 :
              InRange(probe.out.dists[j],
                      probe.room[1] * probe.room[1]
                      + probe.room[2] * probe.room[2])
    /\ (Sanitized /\ probe.diag_sq > 0)
       => /\ sanitize_distances(probe.out, probe.diag_sq, MIN_D) = probe.out
          /\ \A j \in 1..3 :
                 LET d == probe.distances[j]
                     max_sq == (144 * probe.diag_sq) \div 100
                 IN  /\ InRange(d, probe.diag_sq) => probe.out[j] = d
                     /\ (d.kind = "num"
                         /\ (d.sgn = -1 \/ d.sq < MIN_D * MIN_D))
                        => probe.out[j] = Dist(1, MIN_D * MIN_D)
                     /\ (d.kind = "inf"
                         \/ (d.kind = "num" /\ d.sgn = 1
                             /\ 100 * d.sq > 144 * probe.diag_sq))
                        => probe.out[j] = Dist(1, max_sq)

\* The call of coarse_grid_search under way.
GridSearched == probe.fn = "coarse_grid_search"

\* The result of the call under way is the first point, in the order given
\* by Position, among those of least residual; (None, None, inf) when no
\* point has a residual below infinity.
FirstMinimum(Position(_, _, _, _)) ==
    LET xs == Axis(probe.room_bounds[1], probe.room_bounds[2], probe.grid_res)
        ys == Axis(probe.room_bounds[3], probe.room_bounds[4], probe.grid_res)
        R(ix, iy) == ResidualNorm(probe.positions, probe.distances,
                                  Coord(QInt(xs[ix])), Coord(QInt(ys[iy])))
        out == probe.out
    IN  IF \A ix \in DOMAIN xs, iy \in DOMAIN ys : R(ix, iy).kind # "num"
        THEN out = [px |-> None, py |-> None, resid |-> InfResid]
        ELSE \E ix \in DOMAIN xs, iy \in DOMAIN ys :
                 /\ out.px = Coord(QInt(xs[ix]))
                 /\ out.py = Coord(QInt(ys[iy]))
                 /\ out.resid = R(ix, iy)
                 /\ \A jx \in DOMAIN xs, jy \in DOMAIN ys :
                        LET r == R(jx, jy)
                        IN  /\ ~ResidLess(r, out.resid)
                            /\ r = out.resid
                               => Position(ix, iy, xs, ys)
                                      <= Position(jx, jy, xs, ys)

\* The place of the point (xs[ix], ys[iy]) in the scan that runs through
\* every y for each x in turn.
ColumnWise(ix, iy, xs, ys) == (ix - 1) * Len(ys) + iy

\* Its place in the scan that runs through every x for each y in turn.
RowWise(ix, iy, xs, ys) == (iy - 1) * Len(xs) + ix

\* C18 (grid search): coarse_grid_search returns a grid point of least
\* residual over the rectangle; the scan takes each x in turn and, for it,
\* each y in turn, and among the points of least residual the first one of
\* that scan is returned; (None, None, inf) is returned when no residual is
\* a number.
C18_GridMinimum == GridSearched => FirstMinimum(ColumnWise)

\* C18 as stated: among the points of least residual the first one of the
\* row-major scan (row by row, each y in turn and for it each x) is
\* returned.
C18_RowMajor == GridSearched => FirstMinimum(RowWise)

\* Three receivers at the origin, each 5 cm away: (-5, 0), (0, -5), (0, 5)
\* and (5, 0) all have residual 0, and (-5, 0) is returned.
C18_Witness ==
    /\ GridSearched
    /\ probe.positions = Receivers(0, 0)
    /\ probe.distances = <<Dist(1, 25), Dist(1, 25), Dist(1, 25)>>
    /\ probe.room_bounds = <<-10, 30, -10, 30>>
    /\ probe.grid_res = GRID_RES
    /\ probe.out = [px |-> Coord(QInt(-5)), py |-> Coord(QInt(0)),
                    resid |-> Resid(0)]

\* The three receivers do not lie on one line.
NonCollinear(positions) ==
    (positions[2][1] - positions[1][1]) * (positions[3][2] - positions[1][2])
        # (positions[3][1] - positions[1][1]) * (positions[2][2] - positions[1][2])

\* The linear solution lin is the point p itself, with residual 0.
Recovers(lin, p) ==
    /\ lin.err = "none"
    /\ lin.px = Coord(QInt(p[1])) /\ lin.py = Coord(QInt(p[2]))
    /\ lin.resid_norm = Resid(0)
    /\ lin.success

\* C19 (exact recovery): for receivers not on one line and the exact
\* distances from a point, which sanitization leaves unchanged, the linear
\* system with receiver 0 as reference has that point as its solution, with
\* residual 0 and rank 2; estimate_position_from_rssi then returns that
\* point with success = true, as for the receivers (0,0), (5,0), (0,4) and
\* the point (2.0, 1.5).
C19_ExactRecovery ==
    \A p \in TruePoints :
        /\ (/\ Multilaterated
            /\ Len(probe.positions) = 3
            /\ NonCollinear(probe.positions)
            /\ probe.distances
                   = [j \in 1..3 |-> ExactDist(p, probe.positions[j])])
           => Recovers(probe.out, p)
        /\ (/\ Estimated
            /\ ~Collinear(probe.room)
            /\ probe.r = ExactDists(probe.room, p)
            /\ probe.out.dists = probe.r)
           => /\ Recovers(probe.out.lin, p)
              /\ probe.out.success
              /\ probe.out.px = probe.out.lin.px
              /\ probe.out.py = probe.out.lin.py
              /\ probe.out.resid = Resid(0)

\* The room of 5 m by 4 m and the point (2.0, 1.5).
C19_Witness ==
    /\ Estimated
    /\ probe.room = <<500, 400>>
    /\ probe.r = ExactDists(<<500, 400>>, <<200, 150>>)
    /\ probe.out.dists = probe.r
    /\ probe.out.px = Coord(QInt(200)) /\ probe.out.py = Coord(QInt(150))
    /\ probe.out.resid = Resid(0)
    /\ probe.out.success

\* The filter object under way is of the kind given and its last update
\* returned.
Updated(kind) ==
    /\ probe.fn = "filter"
    /\ probe.self.kind = kind
    /\ probe.fed # <<>>
    /\ probe.raised = "none"

\* The last k values fed are all v.
Constant(k, v) ==
    /\ k >= 1
    /\ Len(probe.fed) >= k
    /\ \A j \in 1..k : probe.fed[Len(probe.fed) - k + j] = v

\* q is a float.
IsFloat(q) == fl(q) = q

\* C21 (constant input to the moving average), as stated: once the last k
\* values fed to MovingAverage(k) are all v, update returns exactly v.
C21_ConstantExact ==
    \A v \in FloatVals :
        (Updated("MovingAverageFilter")
         /\ Constant(probe.self.window_size, v))
        => probe.out[1] = v

\* C21 (constant input to the moving average): once the last k values fed
\* to MovingAverage(k) are all v, whatever was fed before, update returns v
\* up to the rounding of its k operations, |out - v| <= k u |v| / (1 - k u)
\* with u = 2^-MantissaBits, and exactly v when the multiples 2v, ..., kv
\* are floats.
C21_ConstantInput ==
    \A v \in FloatVals :
        (Updated("MovingAverageFilter")
         /\ Constant(probe.self.window_size, v))
        => LET k == probe.self.window_size
               out == probe.out[1]
           IN  /\ QLeq(QMul(QAbs(QSub(out, v)),
                            QInt(Pow2(MantissaBits) - k)),
                       QMul(QInt(k), QAbs(v)))
               /\ (\A j \in 1..k : IsFloat(QMul(QInt(j), v))) => out = v

\* MovingAverage(3) fed another value and then three times v.
C21_Witness ==
    /\ Updated("MovingAverageFilter")
    /\ probe.self.window_size = 3
    /\ Len(probe.fed) = 4
    /\ \E v \in FloatVals : Constant(3, v) /\ probe.fed[1] # v

\* The number of values of w below x, and of those at most x.
Below(w, x) == Cardinality({j \in DOMAIN w : QLess(w[j], x)})
AtMost(w, x) == Cardinality({j \in DOMAIN w : QLeq(w[j], x)})

\* x is the k-th smallest value of w.
IsKth(w, k, x) ==
    /\ \E j \in DOMAIN w : w[j] = x
    /\ Below(w, x) < k
    /\ k <= AtMost(w, x)

\* C22 (median filter): the window holds the last min(m, window_size)
\* values fed, in arrival order, and update returns the median of them: the
\* middle value of an odd number of values, the average of the two middle
\* values of an even number.
C22_Median ==
    (probe.fn = "filter" /\ probe.self.kind = "MedianFilter")
    => LET w == probe.self.window
           n == Len(w)
       IN  /\ w = LastN(probe.fed,
                        Min(Len(probe.fed), Max(probe.self.window_size, 0)))
           /\ (probe.fed # <<>> /\ probe.raised = "none")
              => /\ n >= 1
                 /\ n % 2 = 1 => IsKth(w, (n + 1) \div 2, probe.out[1])
                 /\ n % 2 = 0
                    => \E i, j \in DOMAIN w :
                           /\ IsKth(w, n \div 2, w[i])
                           /\ IsKth(w, n \div 2 + 1, w[j])
                           /\ probe.out[1] = FDiv(FAdd(w[i], w[j]), QInt(2))

\* Median(4) after an eviction, its two middle values apart.
C22_Witness ==
    /\ Updated("MedianFilter")
    /\ probe.self.window_size = 4
    /\ Len(probe.fed) = 5
    /\ probe.self.window = SubSeq(probe.fed, 2, 5)
    /\ probe.fed[1] # probe.fed[5]
    /\ \E i, j \in 1..4 :
           /\ IsKth(probe.self.window, 2, probe.self.window[i])
           /\ IsKth(probe.self.window, 3, probe.self.window[j])
           /\ probe.self.window[i] # probe.self.window[j]

\* The state of a smoother of factor alpha after the values of fed, by the
\* recurrence: the first value, then alpha * value + (1 - alpha) * state,
\* each operation rounded.
RECURSIVE Smoothed(_, _)
Smoothed(alpha, fed) ==
    IF Len(fed) = 1 THEN fed[1]
    ELSE LET state == Smoothed(alpha, SubSeq(fed, 1, Len(fed) - 1))
         IN  fl(QAdd(fl(QMul(alpha, fed[Len(fed)])),
                     fl(QMul(fl(QSub(QInt(1), alpha)), state))))

\* C23 (exponential smoother): the first update sets the state to the value
\* and returns it unchanged; every later update sets the state to
\* alpha * value + (1 - alpha) * state and returns the new state.
C23_Smoother ==
    Updated("ExponentialSmoother")
    => /\ probe.self.last = <<Smoothed(probe.self.alpha, probe.fed)>>
       /\ probe.out = probe.self.last
       /\ Len(probe.fed) = 1
          => probe.before.last = <<>> /\ probe.out = <<probe.fed[1]>>
       /\ Len(probe.fed) > 1
          => probe.before.last
                 = <<Smoothed(probe.self.alpha,
                              SubSeq(probe.fed, 1, Len(probe.fed) - 1))>>

\* A smoother of factor 0.25 after three values, the last unlike the state
\* before it.
C23_Witness ==
    /\ Updated("ExponentialSmoother")
    /\ probe.self.alpha = fl(SMOOTH_ALPHA)
    /\ Len(probe.fed) = 3
    /\ probe.before.last # <<>>
    /\ probe.before.last # <<probe.fed[3]>>
    /\ probe.self.last # probe.before.last
    /\ probe.self.last # <<probe.fed[3]>>

\* The larger of two rationals.
QMax(p, q) == IF QLess(p, q) THEN q ELSE p

\* The smoother under way had a state and was updated with v: the distance
\* of its state to v before and after.
Resmoothed(v) ==
    /\ Updated("ExponentialSmoother")
    /\ probe.before.last # <<>>
    /\ probe.fed[Len(probe.fed)] = v

DistBefore(v) == QAbs(QSub(probe.before.last[1], v))
DistAfter(v) == QAbs(QSub(probe.self.last[1], v))

\* C24 (smoother on constant input), as stated: an update with v never
\* moves the state away from v, and leaves a state equal to v at v.
C24_NeverAway ==
    \A v \in FloatVals : Resmoothed(v) => QLeq(DistAfter(v), DistBefore(v))

\* C24 (smoother on constant input): from any prior state, an update with
\* v multiplies the distance |state - v| by (1 - alpha) up to the rounding
\* of its four operations, at most 4 u max(|state|, |v|) with
\* u = 2^-MantissaBits; with alpha = 1 the state is v; the first sample is
\* the state.
C24_Convergence ==
    \A v \in FloatVals :
        /\ Resmoothed(v)
           => /\ QLeq(QMul(QSub(DistAfter(v),
                                QMul(QSub(QInt(1), probe.self.alpha),
                                     DistBefore(v))),
                           QInt(Pow2(MantissaBits))),
                      QMul(QInt(4), QMax(QAbs(probe.before.last[1]), QAbs(v))))
              /\ probe.self.alpha = QInt(1) => probe.self.last = <<v>>
        /\ (Updated("ExponentialSmoother") /\ probe.fed = <<v>>)
           => probe.self.last = <<v>>

\* A smoother of factor 0.2 fed v six times, and its state not v.
C24_Witness ==
    /\ Updated("ExponentialSmoother")
    /\ probe.self.alpha = fl(COORD_ALPHA)
    /\ Len(probe.fed) = MaxFeeds
    /\ \E v \in FloatVals : Constant(MaxFeeds, v)

\* C25 (update never fails): for every filter kind, window size or alpha
\* and history of updates, update returns a filtered value and raises
\* nothing.
C25_UpdateNeverFails ==
    (probe.fn = "filter" /\ probe.fed # <<>>)
    => probe.raised = "none" /\ Len(probe.out) = 1

\* C26 (calibration fitted once): the calibration model is fitted at most
\* once in the life of the process, however many ingestion events are
\* handled.
C26_FittedOnce == fits <= 1

\* The diagnostics estimate_position_from_rssi returns with the position.
DiagnosticFields == {"resid", "success"}

\* C29 (diagnostic pass-through): every payload published by a
\* sync-satisfied event carries the solver's residual norm and success
\* flag next to the readings, the distances and the position.
C29_Diagnostics ==
    \A t \in Conns :
        (Published(t) /\ loc[t].gate = "fresh")
        => (SyncedFields \cup DiagnosticFields) \subseteq DOMAIN loc[t].payload

\* C28 (timestamp monotonicity): no step of any handler, under any
\* interleaving of concurrent handlers, writes an anchor a last-update time
\* lower than the one it holds.
C28_MonotoneTimestamps ==
    [][\A k \in Keys : esp_data'[k].timestamp >= esp_data[k].timestamp]_vars

\* A calibration call with input that the contract excludes: fewer than
\* two pairs, lists of different lengths, or a distance that is not
\* positive.
BadCalibration ==
    /\ probe.fn = "calibrate_path_loss"
    /\ probe.called
    /\ \/ Len(probe.distances) < 2
       \/ Len(probe.rssi_values) < 2
       \/ Len(probe.distances) # Len(probe.rssi_values)
       \/ ~FiniteLog(probe.distances)

\* C27 (calibration rejects bad input): a fit given fewer than two pairs,
\* lists of different lengths or a distance <= 0 fails with
\* CalibrationError and returns no model.
C27_RejectsBadInput ==
    BadCalibration => probe.raised = "CalibrationError" /\ probe.out = <<>>

\* A distance went through the path-loss model and back.
RoundTrip == probe.fn = "inverse" /\ probe.back # <<>>

\* The error of the round trip, in decades: |log10(back) - log10(d)|.
LogError == QAbs(QSub(probe.back[1].pow10, probe.d.pow10))

MidStore(s) == pc[s] = "stamp"

\* Handler t evaluates the gate or reads the last values in this step.
Observes(t) ==
    /\ pc[t] \in {"gate", "filter"}
    /\ pc'[t] # pc[t]

\* C31 (exclusive mutation): no freshness evaluation and no computation of
\* one handler reads the anchors while another handler is between the
\* append of a value and the write of its timestamp.
C31_ExclusiveMutation ==
    [][\A t \in Conns :
          Observes(t) => \A s \in Conns \ {t} : ~MidStore(s)]_vars

\* The event of handler t ran the filter stage.
Filtered(t) == "filter" \in loc[t].stages

\* C32 (filter feed): on a sync-satisfied event the reading fed to each
\* anchor's filter is the last sample the anchor's history held when the
\* gate was evaluated, whether or not the triggering message carried that
\* anchor, and it is the newest element of the window the filtered value
\* was computed over; with persistent filters each anchor's window has
\* grown by one element per such event, up to its size.
C32_FilterFeed ==
    /\ \A t \in Conns :
           Filtered(t)
           => \A k \in Keys :
                  /\ loc[t].r[k] = Last(loc[t].seen[k].value)
                  /\ Last(loc[t].win[k]) = loc[t].r[k]
    /\ variant = "app_plot_3"
       => \A k \in Keys :
              Len(filters.ma[k]) = Min(Len(hist[k]), MEDIAN_WINDOW_3)

\* Anchor 2 reported one sample, not carried by the triggering message,
\* and the sample is in its window twice.
C32_Witness ==
    \E t \in Conns :
        /\ variant = "app_plot_3"
        /\ Filtered(t)
        /\ "rssi2" \notin DOMAIN loc[t].data
        /\ Len(esp_data["rssi2"].value) = 1
        /\ filters.ma["rssi2"] = <<loc[t].r["rssi2"], loc[t].r["rssi2"]>>

\* Handler t takes a step.
Steps(t) == pc'[t] # pc[t] \/ loc'[t] # loc[t]

\* The gate evaluation of handler t's event found every anchor fresh.
SawAllFresh(t) ==
    /\ loc[t].gate # "none"
    /\ \A k \in Keys : Fresh(loc[t].seen[k], loc[t].ct)

\* C33 (no filter change without sync): a step that changes a median
\* window, an RSSI smoother or a coordinate smoother belongs to an event
\* whose gate evaluation found every anchor fresh, so an event at which
\* allFresh() does not hold leaves all filter state as it was; what an
\* event changes of an anchor is the value and timestamp of an anchor its
\* message carries.
C33_StaleFrame ==
    [][/\ filters' # filters
          => \E t \in Conns : Steps(t) /\ SawAllFresh(t)
       /\ \A k \in Keys :
              esp_data'[k] # esp_data[k]
              => \E t \in Conns : Steps(t) /\ k \in DOMAIN loc[t].data]_vars

\* An event of app_plot_3.py that published the degraded payload with
\* filters that earlier events had fed.
C33_Witness ==
    \E t \in Conns :
        /\ variant = "app_plot_3"
        /\ pc[t] = "ret"
        /\ loc[t].gate = "stale"
        /\ "publish" \in loc[t].stages
        /\ filters.ma["rssi1"] # <<>>
        /\ filters.coord_l # <<>>

\* C34 (arrival timestamp): at the gate evaluation of an event, every
\* anchor the triggering message carries has the event's arrival time as
\* its timestamp and is fresh, and a message that carries all three
\* anchors finds the gate open.
C34_ArrivalTimestamp ==
    \A t \in Conns :
        loc[t].gate # "none"
        => /\ \A k \in DOMAIN loc[t].data :
                  /\ loc[t].seen[k].timestamp = loc[t].ct
                  /\ Fresh(loc[t].seen[k], loc[t].ct)
           /\ DOMAIN loc[t].data = Keys => loc[t].gate = "fresh"

\* C35 (unsubscribe of an absent client): the cleanup of a connection
\* handler raises nothing, also when a publish has removed its client
\* already, and a handler that has ended has left its client out of the
\* subscriber list.
C35_Unsubscribe ==
    \A c \in Conns :
        /\ ~loc[c].fin_raised
        /\ pc[c] = "ended" => ~InList(clients, c)

\* The position the solver returns for the distances of handler t's event.
Solved(t) ==
    LET x == rssi_to_distance(loc[t].filt["rssi1"])
        y == rssi_to_distance(loc[t].filt["rssi2"])
        z == rssi_to_distance(loc[t].filt["rssi3"])
    IN  IF variant \in {"appws", "appplot"}
        THEN closed_form_position(x, y, z)
        ELSE estimate_position_from_rssi(x, y, z)

\* C38 (position of the event): the position in a synced payload is the
\* position the solver returned for the event's own distances, rounded to
\* two decimals, whatever earlier events computed.
C38_OwnPosition ==
    \A t \in Conns :
        (Published(t) /\ loc[t].gate = "fresh")
        => /\ loc[t].payload.l = round2(Solved(t).l)
           /\ loc[t].payload.m = round2(Solved(t).m)

\* The message of handler t's event carries a value that float() rejects.
Malformed(t) ==
    \E k \in DOMAIN loc[t].data : FloatJson(loc[t].data[k]).raised # "none"

\* C37 (malformed sample): no step of an event whose message carries a
\* value that cannot be parsed as a number changes the stored value or
\* timestamp of any anchor.
C37_MalformedFrame ==
    [][\A t \in Conns : (Malformed(t) /\ Steps(t)) => esp_data' = esp_data]_vars

\* The most recently received sample of anchor k at the gate evaluation of
\* handler t's event.
LastSample(t, k) == Last(loc[t].seen[k].value)

\* C36 (raw reading reported), as stated: the reading in a synced payload
\* and in a degraded payload is the anchor's last sample, and 0.0 in a
\* degraded payload for an anchor without a sample.
C36_RawReading ==
    \A t \in Conns, k \in Keys :
        Published(t)
        => loc[t].payload[k]
               = IF loc[t].seen[k].value = <<>> THEN QInt(0)
                 ELSE LastSample(t, k)

\* C36 (raw reading reported): the reading in a payload is the anchor's
\* last sample, rounded to two decimals in the synced payload of
\* app_plot_3.py and as received everywhere else; a degraded payload gives
\* 0.0 for an anchor without a sample.
C36_ReportedReading ==
    \A t \in Conns, k \in Keys :
        Published(t)
        => loc[t].payload[k]
               = IF loc[t].seen[k].value = <<>> THEN QInt(0)
                 ELSE IF variant = "app_plot_3" /\ loc[t].gate = "fresh"
                      THEN Round2(LastSample(t, k))
                      ELSE LastSample(t, k)

\* A degraded payload with the second of anchor 1's two samples and 0.0
\* for the others, and a synced payload of app_plot_3.py whose -60.12
\* stands for a sample of -60.125.
C36_Witness ==
    \E t \in Conns :
        /\ Published(t)
        /\ variant = "app_plot_3"
        /\ \/ /\ loc[t].gate = "stale"
              /\ loc[t].seen["rssi1"].value = <<QInt(-70), Q(-481, 8)>>
              /\ loc[t].payload
                     = [rssi1 |-> Q(-481, 8), rssi2 |-> QInt(0),
                        rssi3 |-> QInt(0)]
           \/ /\ loc[t].gate = "fresh"
              /\ LastSample(t, "rssi1") = Q(-481, 8)
              /\ loc[t].payload["rssi1"] = Q(-1503, 25)

\* The step is a GET / request served by index().
Polled ==
    /\ probe'.requests = probe.requests + 1
    /\ probe'.response.route = "GET /"

\* C39 (the freshness query has no side effect): serving GET / changes no
\* anchor's value or timestamp and no filter state, so that no sample is
\* fed into a filter by polling.
C39_QueryHasNoEffect ==
    [][Polled => /\ esp_data' = esp_data
                 /\ filters' = filters
                 /\ probe'.rssi_filter = probe.rssi_filter]_vars

====
